---- MODULE Spec2Model ----
(***************************************************************************)
(* Asynchronous itinerary-job lifecycle of src/src/index.js: the POST      *)
(* handler (submit), the detached background run                           *)
(* (processItineraryGeneration), the GET handler (status check), the       *)
(* retried calls they make and the validation of the model reply.          *)
(*                                                                         *)
(* JavaScript text is a sequence of pieces (Seq(STRING)): single           *)
(* characters for request input and activity fields, whole words for       *)
(* error messages, so that String.includes is membership of a piece.       *)
(* JavaScript values are records tagged with their typeof in field t.      *)
(***************************************************************************)
EXTENDS Integers, Sequences, FiniteSets, TLC

VARIABLES world, env, store, owner, post, bg, get, gets, probe, last

vars == <<world, env, store, owner, post, bg, get, gets, probe, last>>

(***************************************************************************)
(* Finite domains of the model.                                            *)
(***************************************************************************)
\* the POST requests of a behaviour
Reqs == {"r1", "r2"}

\* the job identifiers
JobIds == {"id1", "id2"}

\* the number of status checks made in one behaviour
MaxGets == 1

(***************************************************************************)
(* JavaScript values.                                                      *)
(***************************************************************************)
Undefined == [t |-> "undefined"]

Null == [t |-> "null"]

\* a string value; s is its sequence of characters
Str(s) == [t |-> "string", s |-> s]

\* the number int + frac/10
Num(int, frac) == [t |-> "number", int |-> int, frac |-> frac]

Arr(items) == [t |-> "array", items |-> items]

\* text of n characters
Chars(n) == [i \in 1..n |-> "x"]

IsString(v) == v.t = "string"

IsNumber(v) == v.t = "number"

\* !v for the values a JSON body can hold
Falsy(v) ==
    \/ v.t \in {"undefined", "null"}
    \/ v.t = "string" /\ Len(v.s) = 0
    \/ v.t = "number" /\ v.int = 0 /\ v.frac = 0

NumberIsInteger(v) == IsNumber(v) /\ v.frac = 0

\* v < k and v > k for an integer k
NumLess(v, k) == v.int < k

NumGreater(v, k) == v.int > k \/ (v.int = k /\ v.frac > 0)

IsSpace(c) == c \in {" ", "\t", "\n"}

RECURSIVE TrimStart(_)
TrimStart(s) ==
    IF Len(s) > 0 /\ IsSpace(Head(s)) THEN TrimStart(Tail(s)) ELSE s

RECURSIVE TrimEnd(_)
TrimEnd(s) ==
    IF Len(s) > 0 /\ IsSpace(s[Len(s)]) THEN TrimEnd(SubSeq(s, 1, Len(s) - 1)) ELSE s

\* String.prototype.trim
Trim(s) == TrimEnd(TrimStart(s))

\* String.prototype.includes, on the pieces of a message
Includes(msg, piece) == \E i \in 1..Len(msg) : msg[i] = piece

(***************************************************************************)
(* RETRY_CONFIG and calculateDelay.                                        *)
(***************************************************************************)
maxRetries == 3

baseDelay == 1000

maxDelay == 30000

backoffFactor == 2

RECURSIVE Pow(_, _)
Pow(b, e) == IF e = 0 THEN 1 ELSE b * Pow(b, e - 1)

Min(a, b) == IF a < b THEN a ELSE b

\* calculateDelay without the backoff: baseDelay before every retry
calculateDelayConstant(attempt) == Min(baseDelay, maxDelay)

\* calculateDelay without Math.min(delay, maxDelay)
calculateDelayUncapped(attempt) ==
    baseDelay * Pow(backoffFactor, attempt - 1)

calculateDelay(attempt) ==
    Min(baseDelay * Pow(backoffFactor, attempt - 1), maxDelay)

(***************************************************************************)
(* Error messages: sequences of pieces.                                    *)
(***************************************************************************)
\* Number.prototype.toString of a number value
NumText(v) ==
    IF v.frac = 0 THEN ToString(v.int)
    ELSE ToString(v.int) \o "." \o ToString(v.frac)

\* what Zod calls the type of a value
ZodType(v) == IF v.t = "number" /\ v.frac # 0 THEN "float" ELSE v.t

(***************************************************************************)
(* ActivitySchema, DaySchema, ItinerarySchema: the issues Zod reports for  *)
(* a value, in the order it reports them, each issue one piece             *)
(* "path: message" as generateItinerary formats it.                        *)
(***************************************************************************)
Activity(time, description, location) ==
    [t |-> "object", time |-> time, description |-> description, location |-> location]

Day(day, theme, activities) ==
    [t |-> "object", day |-> day, theme |-> theme, activities |-> activities]

Issue(path, message) == <<path \o ": " \o message>>

\* z.string().min(n, message) at path
StringMinIssues(v, n, path, message) ==
    IF v.t = "undefined" THEN Issue(path, "Required")
    ELSE IF ~IsString(v) THEN Issue(path, "Expected string, received " \o ZodType(v))
    ELSE IF Len(v.s) < n THEN Issue(path, message)
    ELSE <<>>

descriptionMin == 10

ActivityIssues(a, path) ==
    IF a.t # "object" THEN Issue(path, "Expected object, received " \o ZodType(a))
    ELSE StringMinIssues(a.time, 1, path \o ".time", "Time is required")
         \o StringMinIssues(a.description, descriptionMin, path \o ".description",
                            "Description must be at least 10 characters")
         \o StringMinIssues(a.location, 1, path \o ".location", "Location is required")

\* z.number().int().positive(message) at path
DayNumberIssues(v, path) ==
    IF v.t = "undefined" THEN Issue(path, "Required")
    ELSE IF ~IsNumber(v) THEN Issue(path, "Expected number, received " \o ZodType(v))
    ELSE (IF v.frac # 0 THEN Issue(path, "Expected integer, received float") ELSE <<>>)
         \o (IF v.int > 0 \/ (v.int = 0 /\ v.frac > 0) THEN <<>>
             ELSE Issue(path, "Day must be a positive integer"))

RECURSIVE ActivitiesItemIssues(_, _, _)
ActivitiesItemIssues(items, k, path) ==
    IF k > Len(items) THEN <<>>
    ELSE ActivityIssues(items[k], path \o "." \o ToString(k - 1))
         \o ActivitiesItemIssues(items, k + 1, path)

\* z.array(ActivitySchema).min(1, message) at path
ActivitiesIssues(v, path) ==
    IF v.t = "undefined" THEN Issue(path, "Required")
    ELSE IF v.t # "array" THEN Issue(path, "Expected array, received " \o ZodType(v))
    ELSE (IF Len(v.items) < 1
          THEN Issue(path, "At least one activity is required per day") ELSE <<>>)
         \o ActivitiesItemIssues(v.items, 1, path)

DayIssues(d, path) ==
    IF d.t # "object" THEN Issue(path, "Expected object, received " \o ZodType(d))
    ELSE DayNumberIssues(d.day, path \o ".day")
         \o StringMinIssues(d.theme, 1, path \o ".theme", "Theme is required")
         \o ActivitiesIssues(d.activities, path \o ".activities")

RECURSIVE DayItemIssues(_, _)
DayItemIssues(items, k) ==
    IF k > Len(items) THEN <<>>
    ELSE DayIssues(items[k], ToString(k - 1)) \o DayItemIssues(items, k + 1)

\* ItinerarySchema.parse(itinerary): the issues; none means it parsed
ItineraryIssues(v) ==
    IF v.t # "array" THEN Issue("", "Expected array, received " \o ZodType(v))
    ELSE (IF Len(v.items) < 1
          THEN Issue("", "Itinerary must have at least one day") ELSE <<>>)
         \o DayItemIssues(v.items, 1)

\* errors.map(...).join('; ')
RECURSIVE JoinIssues(_)
JoinIssues(issues) ==
    IF Len(issues) = 0 THEN <<>>
    ELSE IF Len(issues) = 1 THEN issues
    ELSE <<Head(issues) \o ";">> \o JoinIssues(Tail(issues))

\* FirstDayOutOfSequence comparing each day with the day before it: the first
\* index whose day is not greater than the one before, or 0
RECURSIVE FirstDayNotIncreasing(_, _)
FirstDayNotIncreasing(items, k) ==
    IF k > Len(items) THEN 0
    ELSE IF k > 1 /\ items[k].day.int <= items[k - 1].day.int THEN k
    ELSE FirstDayNotIncreasing(items, k + 1)

\* the first index i (1-based here) with items[i].day !== i, or 0
RECURSIVE FirstDayOutOfSequence(_, _)
FirstDayOutOfSequence(items, k) ==
    IF k > Len(items) THEN 0
    ELSE IF items[k].day # Num(k, 0) THEN k
    ELSE FirstDayOutOfSequence(items, k + 1)

Ok(v) == [ok |-> TRUE, value |-> v]

Err(message) == [ok |-> FALSE, message |-> message]

\* ValidateItinerary with the day sequence checked before the length
ValidateItinerarySequenceFirst(itinerary, durationDays) ==
    LET issues == ItineraryIssues(itinerary) IN
    IF Len(issues) > 0 THEN Err(<<"Validation", "failed:">> \o JoinIssues(issues))
    ELSE IF FirstDayOutOfSequence(itinerary.items, 1) # 0
    THEN Err(<<"Day", "sequence", "error:", "expected", "day",
               ToString(FirstDayOutOfSequence(itinerary.items, 1)) \o ",", "got", "day",
               NumText(itinerary.items[FirstDayOutOfSequence(itinerary.items, 1)].day)>>)
    ELSE IF Len(itinerary.items) # durationDays
    THEN Err(<<"Expected", ToString(durationDays), "days,", "got",
               ToString(Len(itinerary.items)), "days">>)
    ELSE Ok(itinerary.items)

\* ValidateItinerary without the comparison of the length with durationDays
ValidateItineraryAnyLength(itinerary, durationDays) ==
    LET issues == ItineraryIssues(itinerary) IN
    IF Len(issues) > 0 THEN Err(<<"Validation", "failed:">> \o JoinIssues(issues))
    ELSE LET k == FirstDayOutOfSequence(itinerary.items, 1) IN
         IF k # 0
         THEN Err(<<"Day", "sequence", "error:", "expected", "day", ToString(k) \o ",",
                    "got", "day", NumText(itinerary.items[k].day)>>)
         ELSE Ok(itinerary.items)

\* the validation block of generateItinerary: the validated itinerary (the
\* sequence of its days) or the message of the error it throws
ValidateItinerary(itinerary, durationDays) ==
    LET issues == ItineraryIssues(itinerary) IN
    IF Len(issues) > 0 THEN Err(<<"Validation", "failed:">> \o JoinIssues(issues))
    ELSE IF Len(itinerary.items) # durationDays
    THEN Err(<<"Expected", ToString(durationDays), "days,", "got",
               ToString(Len(itinerary.items)), "days">>)
    ELSE LET k == FirstDayOutOfSequence(itinerary.items, 1) IN
         IF k # 0
         THEN Err(<<"Day", "sequence", "error:", "expected", "day", ToString(k) \o ",",
                    "got", "day", NumText(itinerary.items[k].day)>>)
         ELSE Ok(itinerary.items)

(***************************************************************************)
(* What one attempt of a retried call does: return a value, sleep and call *)
(* itself again with attempt + 1, or throw.                                *)
(***************************************************************************)
Return(v) == [kind |-> "return", value |-> v]

Retry(delay) == [kind |-> "retry", delay |-> delay]

Throw(message) == [kind |-> "throw", message |-> message]

\* what a fetch can come to: a response (ok or not) or a rejection
HttpOk(payload) == [kind |-> "ok", payload |-> payload]

Http(status, body) == [kind |-> "http", status |-> status, body |-> body]

Rejected(message) == [kind |-> "rejected", message |-> message]

\* the message of the error an attempt throws inside its try block, given
\* the prefix it puts before "<status> - <errorText>"
FetchErrorMessage(prefix, outcome) ==
    IF outcome.kind = "http"
    THEN prefix \o <<ToString(outcome.status), "-">> \o outcome.body
    ELSE outcome.message

\* getAccessToken retrying while attempt <= maxRetries + 1
getAccessTokenOneMore(attempt, outcome) ==
    IF outcome.kind = "ok" THEN Return(outcome.payload)
    ELSE IF attempt <= maxRetries + 1 THEN Retry(calculateDelay(attempt))
    ELSE Throw(<<"Failed", "to", "get", "access", "token", "after",
                 ToString(maxRetries + 1), "attempts:">>
               \o FetchErrorMessage(<<"Token", "exchange", "failed:">>, outcome))

\* getAccessToken(serviceAccountKey, attempt): every failure is retried
getAccessToken(attempt, outcome) ==
    IF outcome.kind = "ok" THEN Return(outcome.payload)
    ELSE IF attempt <= maxRetries THEN Retry(calculateDelay(attempt))
    ELSE Throw(<<"Failed", "to", "get", "access", "token", "after",
                 ToString(maxRetries + 1), "attempts:">>
               \o FetchErrorMessage(<<"Token", "exchange", "failed:">>, outcome))

\* the retry test of createFirestoreDocument and updateFirestoreDocument
FirestoreRetryable(message) ==
    Includes(message, "500") \/ Includes(message, "502") \/ Includes(message, "503")

createFirestoreDocument(attempt, outcome) ==
    IF outcome.kind = "ok" THEN Return(outcome.payload)
    ELSE LET message == FetchErrorMessage(<<"Firestore", "create", "failed:">>, outcome) IN
         IF attempt <= maxRetries /\ FirestoreRetryable(message)
         THEN Retry(calculateDelay(attempt))
         ELSE Throw(message)

\* updateFirestoreDocument retrying while attempt <= maxRetries + 1
updateFirestoreDocumentOneMore(attempt, outcome) ==
    IF outcome.kind = "ok" THEN Return(outcome.payload)
    ELSE IF /\ attempt <= maxRetries + 1
            /\ FirestoreRetryable(FetchErrorMessage(<<"Firestore", "update", "failed:">>,
                                                    outcome))
    THEN Retry(calculateDelay(attempt))
    ELSE Throw(FetchErrorMessage(<<"Firestore", "update", "failed:">>, outcome))

updateFirestoreDocument(attempt, outcome) ==
    IF outcome.kind = "ok" THEN Return(outcome.payload)
    ELSE LET message == FetchErrorMessage(<<"Firestore", "update", "failed:">>, outcome) IN
         IF attempt <= maxRetries /\ FirestoreRetryable(message)
         THEN Retry(calculateDelay(attempt))
         ELSE Throw(message)

(***************************************************************************)
(* The model reply.  A reply is the text of the message content and the    *)
(* value JSON.parse gives for the JSON document the text holds: the piece  *)
(* "days" stands for the elements of an array, "day" for the members of an *)
(* object.                                                                 *)
(***************************************************************************)
Reply(text, json) == [text |-> text, json |-> json]

\* the index of the first (last) piece equal to c, or 0: indexOf + 1
RECURSIVE IndexOf(_, _, _)
IndexOf(s, c, k) ==
    IF k > Len(s) THEN 0 ELSE IF s[k] = c THEN k ELSE IndexOf(s, c, k + 1)

RECURSIVE LastIndexOf(_, _, _)
LastIndexOf(s, c, k) ==
    IF k < 1 THEN 0 ELSE IF s[k] = c THEN k ELSE LastIndexOf(s, c, k - 1)

\* the pieces "~~~json" and "~~~" stand for the markdown fence markers
\* cleaned.replace(/^(fence)json\s*/i, '')
ReplaceJsonFence(cleaned) ==
    IF Len(cleaned) > 0 /\ Head(cleaned) \in {"~~~json", "~~~JSON"}
    THEN TrimStart(Tail(cleaned)) ELSE cleaned

\* cleaned.replace(/^(fence)\s*/i, '')
ReplaceOpenFence(cleaned) ==
    IF Len(cleaned) > 0 /\ Head(cleaned) = "~~~"
    THEN TrimStart(Tail(cleaned)) ELSE cleaned

\* cleaned.replace(/\s*(fence)$/i, '')
ReplaceCloseFence(cleaned) ==
    IF Len(cleaned) > 0 /\ cleaned[Len(cleaned)] = "~~~"
    THEN TrimEnd(SubSeq(cleaned, 1, Len(cleaned) - 1)) ELSE cleaned

\* Substring with cleaned.substring(startIndex, endIndex): the last "]" left out
SubstringExclusive(cleaned, startIndex, endIndex) ==
    IF startIndex # 0 /\ endIndex # 0 /\ endIndex > startIndex
    THEN SubSeq(cleaned, startIndex, endIndex - 1)
    ELSE cleaned

\* cleaned.substring(startIndex, endIndex + 1) when both brackets are found in order
Substring(cleaned, startIndex, endIndex) ==
    IF startIndex # 0 /\ endIndex # 0 /\ endIndex > startIndex
    THEN SubSeq(cleaned, startIndex, endIndex)
    ELSE cleaned

\* the text between the first "[" and the last "]"
BracketedPart(cleaned) ==
    Substring(cleaned, IndexOf(cleaned, "[", 1), LastIndexOf(cleaned, "]", Len(cleaned)))

cleanOpenAIResponse(content) ==
    Trim(BracketedPart(ReplaceCloseFence(ReplaceOpenFence(ReplaceJsonFence(Trim(content))))))

\* JSON.parse(content) of the cleaned text of a reply
JSONParse(content, reply) ==
    IF content \in {<<"[", "days", "]">>, <<"{", "day", "}">>, <<"[", "]">>}
    THEN Ok(reply.json)
    ELSE Err(<<"Unexpected", "token">>)

\* the parsed value validated, or the parse error with the content it names
ParsedOrThrown(parsed, content, durationDays) ==
    IF ~parsed.ok
    THEN Err(<<"JSON", "parsing", "failed:">> \o parsed.message
             \o <<".", "Content:">> \o content)
    ELSE ValidateItinerary(parsed.value, durationDays)

\* the cleaned content of a reply parsed and validated
ParseAndValidate(content, reply, durationDays) ==
    ParsedOrThrown(JSONParse(content, reply), content, durationDays)

\* the try block of generateItinerary for one outcome of the API call
GenerateAttempt(outcome, durationDays) ==
    IF outcome.kind = "rejected" THEN Err(outcome.message)
    ELSE IF outcome.kind = "http"
    THEN IF outcome.status = 429
         THEN Err(<<"Rate limited", "by", "OpenAI", "API:">> \o outcome.body)
         ELSE IF outcome.status >= 500
         THEN Err(<<"OpenAI", "server error", ":", ToString(outcome.status), "-">>
                  \o outcome.body)
         ELSE Err(<<"OpenAI", "API", "error:", ToString(outcome.status), "-">>
                  \o outcome.body)
    ELSE ParseAndValidate(cleanOpenAIResponse(Trim(outcome.payload.text)),
                          outcome.payload, durationDays)

isRetryableError(message) ==
    \/ Includes(message, "Rate limited")
    \/ Includes(message, "server error")
    \/ Includes(message, "500")
    \/ Includes(message, "502")
    \/ Includes(message, "503")
    \/ Includes(message, "timeout")

\* what generateItinerary does with the result r of its try block
GenerateResult(attempt, r) ==
    IF r.ok THEN Return(r.value)
    ELSE IF attempt <= maxRetries /\ isRetryableError(r.message)
    THEN Retry(calculateDelay(attempt))
    ELSE Throw(<<"Failed", "to", "generate", "itinerary", "after", ToString(attempt),
                 "attempts:">> \o r.message)

\* generateItinerary(destination, durationDays, apiKey, attempt)
generateItinerary(attempt, outcome, durationDays) ==
    GenerateResult(attempt, GenerateAttempt(outcome, durationDays))

(***************************************************************************)
(* The document store's typed values and the two conversions.              *)
(***************************************************************************)
stringValue(s) == [stringValue |-> s]

integerValue(text) == [integerValue |-> text]

timestampValue(text) == [timestampValue |-> text]

nullValue == [nullValue |-> Null]

arrayValue(values) == [arrayValue |-> [values |-> values]]

mapValue(fields) == [mapValue |-> [fields |-> fields]]

\* new Date(): the instants a request reads are numbered, 1 when it builds
\* the data of the create and 2 when it builds the data of a terminal update
createdNow == 1

completedNow == 2

\* Date.prototype.toISOString
toISOString(date) == <<"T" \o ToString(date)>>

\* the fields createFirestoreDocument sends
CreateFields(data) ==
    [status |-> stringValue(data.status),
     destination |-> stringValue(data.destination),
     durationDays |-> integerValue(<<ToString(data.durationDays)>>),
     createdAt |-> timestampValue(toISOString(data.createdAt)),
     completedAt |-> nullValue,
     itinerary |-> nullValue,
     error |-> nullValue]

ActivityFields(activity) ==
    mapValue([time |-> stringValue(activity.time.s),
              description |-> stringValue(activity.description.s),
              location |-> stringValue(activity.location.s)])

DayFields(day) ==
    mapValue([day |-> integerValue(<<NumText(day.day)>>),
              theme |-> stringValue(day.theme.s),
              activities |->
                  arrayValue([k \in 1..Len(day.activities.items) |->
                                 ActivityFields(day.activities.items[k])])])

\* UpdateItineraryFields writing the days last to first
UpdateItineraryFieldsReversed(data) ==
    IF ~Falsy(data.itinerary)
    THEN [itinerary |->
              arrayValue([k \in 1..Len(data.itinerary.items) |->
                  DayFields(data.itinerary.items[Len(data.itinerary.items) + 1 - k])]),
          error |-> nullValue]
    ELSE <<>>

\* the itinerary and error fields updateFirestoreDocument adds when
\* data.itinerary, then data.error, is truthy
UpdateItineraryFields(data) ==
    IF ~Falsy(data.itinerary)
    THEN [itinerary |-> arrayValue([k \in 1..Len(data.itinerary.items) |->
                                       DayFields(data.itinerary.items[k])]),
          error |-> nullValue]
    ELSE <<>>

\* UpdateErrorFields without its if (data.error) block
UpdateErrorFieldsSkipped(data) == <<>>

UpdateErrorFields(data) ==
    IF ~Falsy(data.error)
    THEN [error |-> stringValue(data.error.s), itinerary |-> nullValue]
    ELSE <<>>

\* fields of a overridden and extended by those of b
Merge(a, b) ==
    [f \in DOMAIN a \cup DOMAIN b |-> IF f \in DOMAIN b THEN b[f] ELSE a[f]]

\* UpdateFields with createdAt sent along with completedAt
UpdateFieldsWithCreatedAt(data) ==
    Merge(Merge([status |-> stringValue(data.status),
                 createdAt |-> timestampValue(toISOString(data.completedAt)),
                 completedAt |-> timestampValue(toISOString(data.completedAt))],
                UpdateItineraryFields(data)),
          UpdateErrorFields(data))

\* UpdateFields with completedAt sent only along with an itinerary
UpdateFieldsCompletedAtOnSuccess(data) ==
    Merge(Merge([status |-> stringValue(data.status),
                 completedAt |-> IF data.itinerary # Null
                                 THEN timestampValue(toISOString(data.completedAt))
                                 ELSE nullValue],
                UpdateItineraryFields(data)),
          UpdateErrorFields(data))

\* the fields updateFirestoreDocument sends
UpdateFields(data) ==
    Merge(Merge([status |-> stringValue(data.status),
                 completedAt |-> timestampValue(toISOString(data.completedAt))],
                UpdateItineraryFields(data)),
          UpdateErrorFields(data))

maxDurationDays == 30

\* parseInt of the text of an integer the model stores
parseInt(text) == CHOOSE n \in 0..maxDurationDays : ToString(n) = text[1]

RECURSIVE convertFromFirestoreFormat(_)
RECURSIVE ConvertValue(_)
\* one pass of the loop of convertFromFirestoreFormat: the value result[key]
\* gets (Undefined when no branch assigns it)
ConvertValue(value) ==
    IF "stringValue" \in DOMAIN value THEN Str(value.stringValue)
    ELSE IF "integerValue" \in DOMAIN value THEN Num(parseInt(value.integerValue), 0)
    ELSE IF "timestampValue" \in DOMAIN value THEN Str(value.timestampValue)
    ELSE IF "nullValue" \in DOMAIN value THEN Null
    ELSE IF "arrayValue" \in DOMAIN value
    THEN Arr([k \in 1..Len(value.arrayValue.values) |->
                 LET item == value.arrayValue.values[k] IN
                 IF "mapValue" \in DOMAIN item
                 THEN convertFromFirestoreFormat(item.mapValue.fields)
                 ELSE ConvertValue(item)])
    ELSE IF "mapValue" \in DOMAIN value
    THEN convertFromFirestoreFormat(value.mapValue.fields)
    ELSE Undefined

convertFromFirestoreFormat(fields) ==
    Merge([t |-> "object"], [key \in DOMAIN fields |-> ConvertValue(fields[key])])

(***************************************************************************)
(* The environment: configuration, token endpoint, document store, model.  *)
(***************************************************************************)
\* env.FIREBASE_SERVICE_ACCOUNT_KEY (valid, absent, not JSON, or JSON whose
\* private key cannot be imported) and env.OPENAI_API_KEY
Envs ==
    {[firebase |-> "valid", openai |-> "set"],
     [firebase |-> "badkey", openai |-> "set"],
     [firebase |-> "malformed", openai |-> "set"],
     [firebase |-> "missing", openai |-> "set"],
     [firebase |-> "valid", openai |-> "missing"]}

None == [t |-> "none"]

Token(r, use) == [t |-> "token", req |-> r, use |-> use]

\* the failures of a token exchange
TokenFaults ==
    {Http(401, <<"invalid_grant">>),
     Http(503, <<"unavailable">>)}

\* what one token exchange can come to
TokenOutcomes(r, use) ==
    IF env.firebase = "badkey" THEN {Rejected(<<"Invalid", "keyData">>)}
    ELSE {HttpOk(Token(r, use))} \cup world.tokenFaults

\* the failures of a document write or read; a failed write changes nothing
StoreFaults ==
    {Http(429, <<"quota">>),
     Http(503, <<"unavailable">>),
     Http(403, <<"denied">>),
     Http(403, <<"denied", "ref", "500">>)}

Exists(id) == id \in DOMAIN store

\* StoreCreateOutcomes for a create sent as a write the store accepts for an
\* existing document too
StoreCreateOutcomesUpsert(id) == {HttpOk(None)} \cup world.storeFaults

\* POST ...documents/itineraries?documentId=id
StoreCreateOutcomes(id) ==
    (IF Exists(id) THEN {Http(409, <<"ALREADY_EXISTS">>)} ELSE {HttpOk(None)})
    \cup world.storeFaults

\* PATCH ...documents/itineraries/id
StoreUpdateOutcomes(id) ==
    (IF Exists(id) THEN {HttpOk(None)} ELSE {Http(404, <<"NOT_FOUND">>)})
    \cup world.storeFaults

\* GET ...documents/itineraries/id
StoreGetOutcomes(id) ==
    (IF Exists(id) THEN {HttpOk(store[id])} ELSE {Http(404, <<"NOT_FOUND">>)})
    \cup world.storeFaults

\* the store after a create of id with fields
StoreCreate(id, fields) ==
    [x \in DOMAIN store \cup {id} |-> IF x = id THEN fields ELSE store[x]]

\* StorePatch with one document shared by all jobs: the update reaches every
\* document of the collection
StorePatchShared(id, fields) ==
    [x \in DOMAIN store |-> Merge(store[x], fields)]

\* the store after an update of id with fields
StorePatch(id, fields) ==
    [store EXCEPT ![id] = Merge(store[id], fields)]

\* an activity whose description has n characters; a day numbered d with it
ActivityWith(n) == Activity(Str(Chars(1)), Str(Chars(n)), Str(Chars(1)))

DayWith(d, n) == Day(Num(d, 0), Str(Chars(1)), Arr(<<ActivityWith(n)>>))

\* the replies the model gives in this model
Replies ==
    {Reply(<<"[", "days", "]">>, Arr(<<DayWith(1, 20)>>)),
     Reply(<<"~~~json", "[", "days", "]", "~~~">>, Arr(<<DayWith(1, 20), DayWith(2, 20)>>)),
     Reply(<<"[", "days", "]">>, Arr(<<DayWith(1, 20), DayWith(3, 20)>>)),
     Reply(<<"[", "days", "]">>, Arr(<<DayWith(1, 12)>>)),
     Reply(<<"[", "days", "]">>, Arr(<<DayWith(1, 9)>>)),
     Reply(<<"{", "day", "}">>, DayWith(1, 20)),
     Reply(<<"Sorry,", "no", "itinerary">>, None),
     Reply(<<"Budget", "500", "EUR">>, None)}

\* the failures of a call of the chat-completions API
ModelFaults ==
    {Http(429, <<"slow", "down">>),
     Http(503, <<"overloaded">>),
     Http(400, <<"bad", "request">>)}

\* what one call of the chat-completions API can come to
ModelOutcomes == {HttpOk(reply) : reply \in world.replies} \cup world.modelFaults

\* the bodies of POST requests: request.json() rejects "malformed", and gives
\* null or an object with these destination and durationDays
Destinations ==
    {Undefined, Num(5, 0), Str(<<>>), Str(<<" ", "a", " ">>),
     Str(<<"R", "o", "m", "e">>), Str(<<" ", "N", "Y", " ">>)}

Durations ==
    {Undefined, Str(<<"2">>), Num(0, 0), Num(1, 0), Num(2, 0), Num(1, 5),
     Num(maxDurationDays + 1, 0), Num(-1, 0)}

Body(destination, durationDays) ==
    [t |-> "object", destination |-> destination, durationDays |-> durationDays]

Bodies ==
    {Body(d, n) : d \in Destinations, n \in Durations}
    \cup {Null, [t |-> "malformed"]}

(***************************************************************************)
(* The POST handler (submit).                                              *)
(***************************************************************************)
NoResponse == [code |-> 0]

Response(code) == [code |-> code]

Accepted(jobId) == [code |-> 202, jobId |-> jobId]

Failure(message) == [code |-> 500, details |-> message]

PostIdle ==
    [pc |-> "idle", body |-> None, destination |-> <<>>, durationDays |-> 0,
     attempt |-> 0, slept |-> 0, accessToken |-> None, jobId |-> "",
     createdAt |-> 0, response |-> NoResponse]

PostDone(response) == [PostIdle EXCEPT !.pc = "done", !.response = response]

BgNone ==
    [pc |-> "none", jobId |-> "", destination |-> <<>>, durationDays |-> 0,
     attempt |-> 0, slept |-> 0, accessToken |-> None, itinerary |-> Null,
     error |-> <<>>, completedAt |-> 0, seen |-> {}]

BgDone(jobId) == [BgNone EXCEPT !.pc = "done", !.jobId = jobId]

GetIdle ==
    [pc |-> "idle", jobId |-> "", attempt |-> 0, slept |-> 0, accessToken |-> None,
     response |-> NoResponse]

GetDone(jobId, response) ==
    [GetIdle EXCEPT !.pc = "done", !.jobId = jobId, !.response = response]

\* the world of a behaviour: the requests that arrive, their bodies, the identifiers
\* generateUUID returns, and the failures and replies of the dependencies
\* whether the behaviour keeps the record of its attempts (last, and seen of a run)
World(requests, bodies, jobIds, tokenFaults, storeFaults, modelFaults, replies, traced) ==
    [requests |-> requests, bodies |-> bodies, jobIds |-> jobIds,
     tokenFaults |-> tokenFaults, storeFaults |-> storeFaults,
     modelFaults |-> modelFaults, replies |-> replies, traced |-> traced]

\* the record of one attempt of a retried call: who made it, the call, the
\* number of the attempt, what the fetch came to, what the attempt did
\* (return, retry after delay, throw) and the suspension of the invocation
\* so far, this delay included
Attempted(who, call, attempt, slept, outcome, res) ==
    IF world.traced
    THEN [who |-> who, call |-> call, attempt |-> attempt, outcome |-> outcome,
          result |-> res.kind,
          delay |-> IF res.kind = "retry" THEN res.delay ELSE 0,
          slept |-> IF res.kind = "retry" THEN slept + res.delay ELSE slept,
          message |-> IF res.kind = "throw" THEN res.message ELSE <<>>]
    ELSE last

Init ==
    /\ world = World({"r1"}, Bodies, {"id1"}, TokenFaults, StoreFaults, ModelFaults,
                     Replies, FALSE)
    /\ env \in Envs
    /\ store = <<>>
    /\ owner = <<>>
    /\ post = [r \in Reqs |-> PostIdle]
    /\ bg = [r \in Reqs |-> BgNone]
    /\ get = GetIdle
    /\ gets = 0
    /\ probe = None
    /\ last = None

\* a POST request arrives and its body is read
PostArrive(r, body) ==
    /\ r \in world.requests
    /\ post[r].pc = "idle"
    /\ post' = [post EXCEPT ![r] = [@ EXCEPT !.pc = "received", !.body = body]]
    /\ UNCHANGED <<world, env, store, owner, bg, get, gets, probe, last>>

\* the destination test of the input validation
DestinationRejected(destination) ==
    \/ Falsy(destination)
    \/ ~IsString(destination)
    \/ Len(Trim(destination.s)) < 2

\* DurationRejected without the Number.isInteger test
DurationRejectedFractionAllowed(durationDays) ==
    \/ Falsy(durationDays)
    \/ ~IsNumber(durationDays)
    \/ NumLess(durationDays, 1)
    \/ NumGreater(durationDays, maxDurationDays)

\* the durationDays test of the input validation
DurationRejected(durationDays) ==
    \/ Falsy(durationDays)
    \/ ~IsNumber(durationDays)
    \/ NumLess(durationDays, 1)
    \/ NumGreater(durationDays, maxDurationDays)
    \/ ~NumberIsInteger(durationDays)

\* the handler from request.json() to the call of getAccessToken: the
\* response it returns at once, or None when it goes on
PostCheck(body) ==
    IF body.t = "malformed" THEN Failure(<<"Unexpected", "token">>)
    ELSE IF body.t # "object" THEN Failure(<<"Cannot", "destructure">>)
    ELSE IF DestinationRejected(body.destination) THEN Response(400)
    ELSE IF DurationRejected(body.durationDays) THEN Response(400)
    ELSE IF env.firebase = "missing" \/ env.openai = "missing"
    THEN Failure(<<"Required", "environment", "variables", "not", "configured">>)
    ELSE IF env.firebase = "malformed" THEN Failure(<<"Unexpected", "token">>)
    ELSE None

PostValidate(r) ==
    /\ post[r].pc = "received"
    /\ LET body == post[r].body
           response == PostCheck(body)
       IN  post' = [post EXCEPT ![r] =
                IF response # None THEN PostDone(response)
                ELSE [@ EXCEPT !.pc = "token", !.body = None, !.attempt = 1,
                               !.destination = body.destination.s,
                               !.durationDays = body.durationDays.int]]
    /\ UNCHANGED <<world, env, store, owner, bg, get, gets, probe, last>>

\* one attempt of the handler's getAccessToken; on success generateUUID
\* picks the job id and the data of the create is built (new Date())
PostToken(r, outcome) ==
    /\ post[r].pc = "token"
    /\ LET res == getAccessToken(post[r].attempt, outcome) IN
       \/ /\ res.kind = "return"
          /\ \E id \in world.jobIds :
                post' = [post EXCEPT ![r] =
                            [@ EXCEPT !.pc = "create", !.attempt = 1, !.slept = 0,
                                      !.accessToken = res.value, !.jobId = id,
                                      !.createdAt = createdNow]]
       \/ /\ res.kind = "retry"
          /\ post' = [post EXCEPT ![r] =
                         [@ EXCEPT !.attempt = @ + 1, !.slept = @ + res.delay]]
       \/ /\ res.kind = "throw"
          /\ post' = [post EXCEPT ![r] = PostDone(Failure(res.message))]
    /\ last' = Attempted(r, "getAccessToken", post[r].attempt, post[r].slept, outcome,
                          getAccessToken(post[r].attempt, outcome))
    /\ UNCHANGED <<world, env, store, owner, bg, get, gets, probe>>

\* PostCreateData with destination stored as received
PostCreateDataUntrimmed(p) ==
    [status |-> <<"processing">>, destination |-> p.destination,
     durationDays |-> p.durationDays, createdAt |-> p.createdAt,
     completedAt |-> Null, itinerary |-> Null, error |-> Null]

\* the data object the handler passes to createFirestoreDocument
PostCreateData(p) ==
    [status |-> <<"processing">>, destination |-> Trim(p.destination),
     durationDays |-> p.durationDays, createdAt |-> p.createdAt,
     completedAt |-> Null, itinerary |-> Null, error |-> Null]

\* processItineraryGeneration up to its first call of getAccessToken
processItineraryGeneration(jobId, destination, durationDays) ==
    [BgNone EXCEPT !.pc = "token", !.attempt = 1, !.jobId = jobId,
                   !.destination = destination, !.durationDays = durationDays]

\* Scheduled with the create not awaited: the run starts whatever the
\* attempt came to
ScheduledWithoutAwait(r, res) ==
    processItineraryGeneration(post[r].jobId, Trim(post[r].destination),
                               post[r].durationDays)

\* Scheduled with ctx.waitUntil in a finally block: the run starts when the
\* create returns and when it throws
ScheduledInFinally(r, res) ==
    IF res.kind # "retry"
    THEN processItineraryGeneration(post[r].jobId, Trim(post[r].destination),
                                    post[r].durationDays)
    ELSE bg[r]

\* Scheduled with the destination handed to the run as it was received
ScheduledUntrimmed(r, res) ==
    IF res.kind = "return"
    THEN processItineraryGeneration(post[r].jobId, post[r].destination,
                                    post[r].durationDays)
    ELSE bg[r]

\* Scheduled with the handler's access token handed to the run, which then
\* skips its own getAccessToken
ScheduledWithToken(r, res) ==
    IF res.kind = "return"
    THEN [processItineraryGeneration(post[r].jobId, Trim(post[r].destination),
                                     post[r].durationDays)
             EXCEPT !.pc = "generate", !.accessToken = post[r].accessToken]
    ELSE bg[r]

\* the background run of request r after an attempt of the create came to
\* res: ctx.waitUntil(processItineraryGeneration(...)) follows the awaited
\* create
Scheduled(r, res) ==
    IF res.kind = "return"
    THEN processItineraryGeneration(post[r].jobId, Trim(post[r].destination),
                                    post[r].durationDays)
    ELSE bg[r]

\* one attempt of the handler's createFirestoreDocument
PostCreate(r, outcome) ==
    /\ post[r].pc = "create"
    /\ LET res == createFirestoreDocument(post[r].attempt, outcome)
           id == post[r].jobId
       IN  /\ \/ /\ res.kind = "return"
                 /\ store' = StoreCreate(id, CreateFields(PostCreateData(post[r])))
                 /\ owner' = [x \in DOMAIN owner \cup {id} |->
                                 IF x = id THEN r ELSE owner[x]]
                 /\ post' = [post EXCEPT ![r] = PostDone(Accepted(id))]
              \/ /\ res.kind = "retry"
                 /\ post' = [post EXCEPT ![r] =
                                [@ EXCEPT !.attempt = @ + 1, !.slept = @ + res.delay]]
                 /\ UNCHANGED <<store, owner>>
              \/ /\ res.kind = "throw"
                 /\ post' = [post EXCEPT ![r] = PostDone(Failure(res.message))]
                 /\ UNCHANGED <<store, owner>>
           /\ bg' = [bg EXCEPT ![r] = Scheduled(r, res)]
    /\ last' = Attempted(r, "createFirestoreDocument", post[r].attempt, post[r].slept,
                          outcome, createFirestoreDocument(post[r].attempt, outcome))
    /\ UNCHANGED <<world, env, get, gets, probe>>

(***************************************************************************)
(* The background run (processItineraryGeneration).                        *)
(***************************************************************************)
\* Catch with the update with status 'completed' placed after the try
\* block: its error is not caught
CatchBeforeUpdateOnly(run, message) ==
    IF run.itinerary # Null THEN BgDone(run.jobId)
    ELSE IF run.accessToken = None
    THEN [run EXCEPT !.pc = "fail_token", !.attempt = 1, !.slept = 0,
                     !.itinerary = Null, !.error = message]
    ELSE [run EXCEPT !.pc = "fail_update", !.attempt = 1, !.slept = 0,
                     !.itinerary = Null, !.error = message,
                     !.completedAt = completedNow]

\* Catch with a catch block that requests a token whether or not the run
\* holds one
CatchAlwaysAcquires(run, message) ==
    [run EXCEPT !.pc = "fail_token", !.attempt = 1, !.slept = 0,
                !.itinerary = Null, !.error = message]

\* Catch with a catch block that only logs the error
CatchLogsOnly(run, message) == BgDone(run.jobId)

\* the catch block up to its first call: it acquires a token when the run
\* holds none, else goes to the update with status 'failed'
Catch(run, message) ==
    IF run.accessToken = None
    THEN [run EXCEPT !.pc = "fail_token", !.attempt = 1, !.slept = 0,
                     !.itinerary = Null, !.error = message]
    ELSE [run EXCEPT !.pc = "fail_update", !.attempt = 1, !.slept = 0,
                     !.itinerary = Null, !.error = message,
                     !.completedAt = completedNow]

Again(run, res) == [run EXCEPT !.attempt = @ + 1, !.slept = @ + res.delay]

\* what a run has seen of one call: the failure of the fetch, or the reply of
\* the model and whether the try block of generateItinerary accepted it
Event(call, outcome, durationDays) ==
    IF outcome.kind # "ok" THEN {[event |-> "fault", call |-> call]}
    ELSE IF call = "generateItinerary"
    THEN {[event |-> "reply", reply |-> outcome.payload,
           accepted |-> GenerateAttempt(outcome, durationDays).ok]}
    ELSE {}

\* the run next, with the record of what the run has seen so far
Saw(next, run, call, outcome) ==
    IF world.traced
    THEN [next EXCEPT !.seen = run.seen \cup Event(call, outcome, run.durationDays)]
    ELSE next

\* the count of the calls of a run, in the behaviours that count them
Counted(call) ==
    IF probe.t = "calls" THEN [probe EXCEPT ![call] = @ + 1] ELSE probe

\* one attempt of getAccessToken in the try block
BgToken(r, outcome) ==
    /\ bg[r].pc = "token"
    /\ LET res == getAccessToken(bg[r].attempt, outcome) IN
       bg' = [bg EXCEPT ![r] =
                 Saw(IF res.kind = "return"
                 THEN [bg[r] EXCEPT !.pc = "generate", !.attempt = 1, !.slept = 0,
                                !.accessToken = res.value]
                 ELSE IF res.kind = "retry" THEN Again(bg[r], res)
                 ELSE Catch(bg[r], res.message),
                     bg[r], "getAccessToken", outcome)]
    /\ last' = Attempted(r, "getAccessToken", bg[r].attempt, bg[r].slept, outcome,
                          getAccessToken(bg[r].attempt, outcome))
    /\ UNCHANGED <<world, env, store, owner, post, get, gets>>
    /\ probe' = Counted("token")

\* one attempt of generateItinerary
BgGenerate(r, outcome) ==
    /\ bg[r].pc = "generate"
    /\ LET res == generateItinerary(bg[r].attempt, outcome, bg[r].durationDays) IN
       bg' = [bg EXCEPT ![r] =
                 Saw(IF res.kind = "return"
                    THEN [bg[r] EXCEPT !.pc = "update", !.attempt = 1, !.slept = 0,
                                   !.itinerary = Arr(res.value),
                                   !.completedAt = completedNow]
                    ELSE IF res.kind = "retry" THEN Again(bg[r], res)
                    ELSE Catch(bg[r], res.message),
                     bg[r], "generateItinerary", outcome)]
    /\ last' = Attempted(r, "generateItinerary", bg[r].attempt, bg[r].slept, outcome,
                          generateItinerary(bg[r].attempt, outcome, bg[r].durationDays))
    /\ UNCHANGED <<world, env, store, owner, post, get, gets>>
    /\ probe' = Counted("model")

\* the data of the update with status 'completed'
CompletedData(run) ==
    [status |-> <<"completed">>, itinerary |-> run.itinerary,
     completedAt |-> run.completedAt, error |-> Null]

\* the data of the update with status 'failed'
FailedData(run) ==
    [status |-> <<"failed">>, completedAt |-> run.completedAt,
     error |-> Str(<<"Generation", "failed:">> \o run.error), itinerary |-> Null]

\* Completed with a statement after the update throwing inside the try block
CompletedThenCaught(run) == Catch(run, <<"late", "failure">>)

\* the run once the update with status 'completed' has returned: the try
\* block ends and the catch block is skipped
Completed(run) == BgDone(run.jobId)

\* one attempt of the update with status 'completed'
BgUpdate(r, outcome) ==
    /\ bg[r].pc = "update"
    /\ LET res == updateFirestoreDocument(bg[r].attempt, outcome) IN
       /\ bg' = [bg EXCEPT ![r] =
                 Saw(IF res.kind = "return" THEN Completed(bg[r])
                    ELSE IF res.kind = "retry" THEN Again(bg[r], res)
                    ELSE Catch(bg[r], res.message),
                     bg[r], "updateFirestoreDocument", outcome)]
       /\ store' = IF res.kind = "return"
                   THEN StorePatch(bg[r].jobId, UpdateFields(CompletedData(bg[r])))
                   ELSE store
    /\ last' = Attempted(r, "updateFirestoreDocument", bg[r].attempt, bg[r].slept, outcome,
                          updateFirestoreDocument(bg[r].attempt, outcome))
    /\ UNCHANGED <<world, env, owner, post, get, gets>>
    /\ probe' = Counted("update")

\* Logged with a catch block that starts the run again when its own try
\* block has thrown
LoggedThenRestarted(run) ==
    [run EXCEPT !.pc = "token", !.attempt = 1, !.slept = 0, !.accessToken = None,
                !.itinerary = Null, !.error = <<>>, !.completedAt = 0]

\* Logged with an inner catch that throws the error again: the promise of
\* the run is rejected
LoggedThenRethrown(run) == [BgDone(run.jobId) EXCEPT !.pc = "rejected"]

\* the run once the try block inside the catch block has thrown: the inner
\* catch logs the error and the run ends
Logged(run) == BgDone(run.jobId)

\* one attempt of getAccessToken in the catch block
BgFailToken(r, outcome) ==
    /\ bg[r].pc = "fail_token"
    /\ LET res == getAccessToken(bg[r].attempt, outcome) IN
       /\ bg' = [bg EXCEPT ![r] =
                 Saw(IF res.kind = "return"
                    THEN [bg[r] EXCEPT !.pc = "fail_update", !.attempt = 1, !.slept = 0,
                                   !.accessToken = res.value,
                                   !.completedAt = completedNow]
                    ELSE IF res.kind = "retry" THEN Again(bg[r], res)
                    ELSE Logged(bg[r]),
                     bg[r], "getAccessToken", outcome)]
    /\ last' = Attempted(r, "getAccessToken", bg[r].attempt, bg[r].slept, outcome,
                          getAccessToken(bg[r].attempt, outcome))
    /\ UNCHANGED <<world, env, store, owner, post, get, gets>>
    /\ probe' = Counted("token")

\* one attempt of the update with status 'failed'
BgFailUpdate(r, outcome) ==
    /\ bg[r].pc = "fail_update"
    /\ LET res == updateFirestoreDocument(bg[r].attempt, outcome) IN
       /\ bg' = [bg EXCEPT ![r] =
                 Saw(IF res.kind = "retry" THEN Again(bg[r], res)
                     ELSE IF res.kind = "throw" THEN Logged(bg[r])
                     ELSE BgDone(bg[r].jobId),
                     bg[r], "updateFirestoreDocument", outcome)]
       /\ store' = IF res.kind = "return"
                   THEN StorePatch(bg[r].jobId, UpdateFields(FailedData(bg[r])))
                   ELSE store
    /\ last' = Attempted(r, "updateFirestoreDocument", bg[r].attempt, bg[r].slept, outcome,
                          updateFirestoreDocument(bg[r].attempt, outcome))
    /\ UNCHANGED <<world, env, owner, post, get, gets>>
    /\ probe' = Counted("update")

(***************************************************************************)
(* The GET handler (status check).                                         *)
(***************************************************************************)
Found(data) == [code |-> 200, data |-> data]

\* GetCheck without the test of jobId
GetCheckIdOptional(jobId) ==
    IF env.firebase = "missing" THEN Failure(<<"FIREBASE_SERVICE_ACCOUNT_KEY",
                                               "not", "configured">>)
    ELSE IF env.firebase = "malformed" THEN Failure(<<"Unexpected", "token">>)
    ELSE None

\* the handler up to its call of getAccessToken: the response it returns at
\* once, or None when it goes on; jobId is "" when the request names none
GetCheck(jobId) ==
    IF jobId = "" THEN Response(400)
    ELSE IF env.firebase = "missing" THEN Failure(<<"FIREBASE_SERVICE_ACCOUNT_KEY",
                                                    "not", "configured">>)
    ELSE IF env.firebase = "malformed" THEN Failure(<<"Unexpected", "token">>)
    ELSE None

GetArrive(jobId) ==
    /\ get.pc \in {"idle", "done"}
    /\ gets < MaxGets
    /\ gets' = gets + 1
    /\ get' = IF GetCheck(jobId) # None THEN GetDone(jobId, GetCheck(jobId))
              ELSE [GetIdle EXCEPT !.pc = "token", !.jobId = jobId, !.attempt = 1]
    /\ UNCHANGED <<world, env, store, owner, post, bg, probe, last>>

\* one attempt of the handler's getAccessToken
GetToken(outcome) ==
    /\ get.pc = "token"
    /\ LET res == getAccessToken(get.attempt, outcome) IN
       get' = IF res.kind = "return"
              THEN [get EXCEPT !.pc = "fetch", !.attempt = 0, !.slept = 0,
                               !.accessToken = res.value]
              ELSE IF res.kind = "retry" THEN Again(get, res)
              ELSE GetDone(get.jobId, Failure(res.message))
    /\ last' = Attempted("get", "getAccessToken", get.attempt, get.slept, outcome,
                          getAccessToken(get.attempt, outcome))
    /\ UNCHANGED <<world, env, store, owner, post, bg, gets, probe>>

\* GetAnswer with every response that is not ok answered 'Job not found'
GetAnswerNotFoundOnError(outcome) ==
    IF outcome.kind # "ok" THEN Response(404)
    ELSE Found(convertFromFirestoreFormat(outcome.payload))

\* the handler's answer to the store's response
GetAnswer(outcome) ==
    IF outcome.kind = "http" /\ outcome.status = 404 THEN Response(404)
    ELSE IF outcome.kind # "ok"
    THEN Failure(<<"Firestore", "error:", ToString(outcome.status)>>)
    ELSE Found(convertFromFirestoreFormat(outcome.payload))

\* the read of the document and the response
GetFetch(outcome) ==
    /\ get.pc = "fetch"
    /\ get' = GetDone(get.jobId, GetAnswer(outcome))
    /\ UNCHANGED <<world, env, store, owner, post, bg, gets, probe, last>>

Next ==
    \/ \E r \in Reqs, body \in world.bodies : PostArrive(r, body)
    \/ \E r \in Reqs : PostValidate(r)
    \/ \E r \in Reqs : \E outcome \in TokenOutcomes(r, "submit") : PostToken(r, outcome)
    \/ \E r \in Reqs : \E outcome \in StoreCreateOutcomes(post[r].jobId) :
          PostCreate(r, outcome)
    \/ \E r \in Reqs : \E outcome \in TokenOutcomes(r, "run") : BgToken(r, outcome)
    \/ \E r \in Reqs : \E outcome \in ModelOutcomes : BgGenerate(r, outcome)
    \/ \E r \in Reqs : \E outcome \in StoreUpdateOutcomes(bg[r].jobId) :
          BgUpdate(r, outcome)
    \/ \E r \in Reqs : \E outcome \in TokenOutcomes(r, "rerun") : BgFailToken(r, outcome)
    \/ \E r \in Reqs : \E outcome \in StoreUpdateOutcomes(bg[r].jobId) :
          BgFailUpdate(r, outcome)
    \/ \E jobId \in JobIds \cup {""} : GetArrive(jobId)
    \/ \E outcome \in TokenOutcomes("get", "check") : GetToken(outcome)
    \/ \E outcome \in StoreGetOutcomes(get.jobId) : GetFetch(outcome)

Spec == Init /\ [][Next]_vars

(***************************************************************************)
(* Two concurrent submissions whose identifiers can collide, with one      *)
(* retried and one unretried failure of each dependency.                   *)
(***************************************************************************)
InitConcurrent ==
    /\ world = World(Reqs,
                     {Body(Str(<<" ", "N", "Y", " ">>), Num(1, 0)),
                      Body(Str(<<"R", "o", "m", "e">>), Num(2, 0)),
                      Body(Str(<<"R", "o", "m", "e">>), Num(0, 0)),
                      [t |-> "malformed"]},
                     JobIds,
                     {Http(503, <<"unavailable">>)},
                     {Http(503, <<"unavailable">>), Http(429, <<"quota">>)},
                     {Http(429, <<"slow", "down">>), Http(400, <<"bad", "request">>)},
                     {Reply(<<"[", "days", "]">>, Arr(<<DayWith(1, 20)>>)),
                      Reply(<<"~~~json", "[", "days", "]", "~~~">>,
                            Arr(<<DayWith(1, 20), DayWith(2, 20)>>)),
                      Reply(<<"Sorry,", "no", "itinerary">>, None)},
                     FALSE)
    /\ env \in Envs
    /\ store = <<>>
    /\ owner = <<>>
    /\ post = [r \in Reqs |-> PostIdle]
    /\ bg = [r \in Reqs |-> BgNone]
    /\ get = GetIdle
    /\ gets = 0
    /\ probe = None
    /\ last = None

NextConcurrent ==
    \/ \E r \in Reqs, body \in world.bodies : PostArrive(r, body)
    \/ \E r \in Reqs : PostValidate(r)
    \/ \E r \in Reqs : \E outcome \in TokenOutcomes(r, "submit") : PostToken(r, outcome)
    \/ \E r \in Reqs : \E outcome \in StoreCreateOutcomes(post[r].jobId) :
          PostCreate(r, outcome)
    \/ \E r \in Reqs : \E outcome \in TokenOutcomes(r, "run") : BgToken(r, outcome)
    \/ \E r \in Reqs : \E outcome \in ModelOutcomes : BgGenerate(r, outcome)
    \/ \E r \in Reqs : \E outcome \in StoreUpdateOutcomes(bg[r].jobId) :
          BgUpdate(r, outcome)
    \/ \E r \in Reqs : \E outcome \in TokenOutcomes(r, "rerun") : BgFailToken(r, outcome)
    \/ \E r \in Reqs : \E outcome \in StoreUpdateOutcomes(bg[r].jobId) :
          BgFailUpdate(r, outcome)

SpecConcurrent == InitConcurrent /\ [][NextConcurrent]_vars

(***************************************************************************)
(* One submission and its background run, with every failure and reply of  *)
(* the dependencies, keeping the record of the attempts made.              *)
(***************************************************************************)
InitRun ==
    /\ world = World({"r1"}, Bodies, {"id1"}, TokenFaults, StoreFaults, ModelFaults,
                     Replies, TRUE)
    /\ env \in Envs
    /\ store = <<>>
    /\ owner = <<>>
    /\ post = [r \in Reqs |-> PostIdle]
    /\ bg = [r \in Reqs |-> BgNone]
    /\ get = GetIdle
    /\ gets = 0
    /\ probe = None
    /\ last = None

SpecRun == InitRun /\ [][NextConcurrent]_vars

(***************************************************************************)
(* Properties of the job lifecycle.                                        *)
(***************************************************************************)
StatusOf(id) == store[id].status.stringValue

Terminal(status) == status \in {<<"completed">>, <<"failed">>}

\* C1: once the stored status of a job is 'completed' or 'failed' no step
\* of a submission or of a background run changes it; the only changes of
\* a stored status are processing -> completed and processing -> failed.
C1_TerminalStatusIsFinal ==
    [][\A id \in DOMAIN store :
          /\ id \in DOMAIN store'
          /\ store'[id].status # store[id].status
                => /\ StatusOf(id) = <<"processing">>
                   /\ Terminal(store'[id].status.stringValue)]_vars

\* C1 witness: a job is terminal and a later submission that drew the same
\* identifier has attempted its create and been refused.
C1_Witness ==
    \E id \in DOMAIN store, r \in Reqs :
        /\ Terminal(StatusOf(id))
        /\ owner[id] # r
        /\ post[r].response.code = 500
        /\ Includes(post[r].response.details, "409")

\* C2 (as claimed): a background run that has ended has left its job with a
\* terminal stored status.
C2_EndedRunLeftTerminalStatus ==
    \A r \in Reqs :
        bg[r].pc = "done" => Terminal(StatusOf(bg[r].jobId))

\* C3: a 'processing' document has itinerary and error null; a 'completed'
\* one has a non-null itinerary and a null error; a 'failed' one has a
\* non-empty error string and a null itinerary.
C3_ItineraryXorError ==
    \A id \in DOMAIN store :
        LET doc == store[id] IN
        /\ StatusOf(id) \in {<<"processing">>, <<"completed">>, <<"failed">>}
        /\ StatusOf(id) = <<"processing">>
              => doc.itinerary = nullValue /\ doc.error = nullValue
        /\ StatusOf(id) = <<"completed">>
              => doc.itinerary # nullValue /\ doc.error = nullValue
        /\ StatusOf(id) = <<"failed">>
              => /\ doc.itinerary = nullValue
                 /\ "stringValue" \in DOMAIN doc.error
                 /\ Len(doc.error.stringValue) > 0

\* C3 witness: a job has been written as 'failed' after its run had held a
\* validated itinerary (the update to 'completed' was refused).
C3_Witness ==
    \E id \in DOMAIN store :
        /\ StatusOf(id) = <<"failed">>
        /\ Includes(store[id].error.stringValue, "update")

\* C4: a 'completed' document stores exactly durationDays days, the i-th
\* of them numbered i, each with at least one activity.
C4_CompletedItineraryIsValidated ==
    \A id \in DOMAIN store :
        StatusOf(id) = <<"completed">> =>
            LET days == store[id].itinerary.arrayValue.values IN
            /\ store[id].durationDays.integerValue = <<ToString(Len(days))>>
            /\ \A i \in 1..Len(days) :
                  LET fields == days[i].mapValue.fields IN
                  /\ fields.day.integerValue = <<ToString(i)>>
                  /\ Len(fields.activities.arrayValue.values) >= 1

\* C4 witness: a job asked for two days is 'completed' with two days.
C4_Witness ==
    \E id \in DOMAIN store :
        /\ StatusOf(id) = <<"completed">>
        /\ Len(store[id].itinerary.arrayValue.values) = 2

\* the inputs C5 names: destination missing, not a string or shorter than 2
\* characters once trimmed; durationDays not an integer in [1,30]
ClaimedBadDestination(destination) ==
    \/ destination.t # "string"
    \/ Len(Trim(destination.s)) < 2

ClaimedBadDuration(durationDays) ==
    ~(/\ durationDays.t = "number"
      /\ durationDays.frac = 0
      /\ 1 <= durationDays.int
      /\ durationDays.int <= 30)

C7_RunOnlyAfterCreate ==
    \A r \in Reqs :
        /\ bg[r].pc # "none"
              => /\ post[r].response = Accepted(bg[r].jobId)
                 /\ bg[r].jobId \in DOMAIN store
                 /\ owner[bg[r].jobId] = r
        /\ post[r].pc \in {"received", "token", "create"} => bg[r].pc = "none"
        /\ post[r].response.code = 500 => bg[r].pc = "none"

\* C7 witness: a run has taken its first steps while the other submission,
\* which drew the same identifier, had its create refused.
C7_Witness ==
    \E r \in Reqs, q \in Reqs :
        /\ bg[r].pc = "generate"
        /\ q # r
        /\ post[q].response.code = 500
        /\ Includes(post[q].response.details, "ALREADY_EXISTS")

\* C8: a status check that reads the store for a jobId that a submission
\* has returned is never answered 404, and when the stored status is still
\* 'processing' the document it returns has status 'processing'.
C8_SubmittedJobIsFound ==
    [][( /\ get.pc = "fetch"
         /\ get'.pc = "done"
         /\ \E r \in Reqs : post[r].response = Accepted(get.jobId) )
          => /\ get'.response.code # 404
             /\ (get'.response.code = 200 /\ StatusOf(get.jobId) = <<"processing">>)
                   => get'.response.data.status = Str(<<"processing">>)]_vars

\* C8 witness: a status check of a submitted job has returned the document
\* with status 'processing'.
C8_Witness ==
    /\ get.response.code = 200
    /\ get.response.data.status = Str(<<"processing">>)
    /\ \E r \in Reqs : post[r].response = Accepted(get.jobId)

\* C9: a submission answered 500 has created no document and has no
\* background run.
C9_FailedSubmissionLeavesNothing ==
    \A r \in Reqs :
        post[r].response.code = 500
            => /\ bg[r].pc = "none"
               /\ \A id \in DOMAIN owner : owner[id] # r

\* C9 witness: a submission has been answered 500 after its create was
\* refused with 503 on every attempt.
C9_Witness ==
    \E r \in Reqs :
        /\ post[r].response.code = 500
        /\ Includes(post[r].response.details, "create")
        /\ Includes(post[r].response.details, "503")

(***************************************************************************)
(* The validation of a parsed reply, applied to candidates drawn from a    *)
(* bounded set.                                                            *)
(***************************************************************************)
\* the longest candidate, the largest day number and the largest
\* expectedDays drawn
MaxProbeLen == 2

MaxProbeDay == 3

MaxExpectedDays == 2

\* the largest attempt number calculateDelay is applied to
MaxProbeAttempt == 7

ProbeDays ==
    {DayWith(d, n) : d \in 1..MaxProbeDay, n \in {9, 10, 19, 20}}
    \cup {Day(Num(1, 0), Str(<<>>), Arr(<<ActivityWith(20)>>)),
          Day(Num(1, 0), Str(Chars(1)), Arr(<<>>)),
          Day(Num(1, 0), Str(Chars(1)), Undefined),
          Day(Str(<<"1">>), Str(Chars(1)), Arr(<<ActivityWith(20)>>)),
          Day(Num(1, 5), Str(Chars(1)), Arr(<<ActivityWith(20)>>)),
          Day(Num(1, 0), Str(Chars(1)),
              Arr(<<Activity(Str(<<>>), Str(Chars(20)), Str(Chars(1)))>>)),
          Day(Num(1, 0), Str(Chars(1)),
              Arr(<<ActivityWith(20), Activity(Str(Chars(1)), Str(Chars(20)), Str(<<>>))>>))}

Candidates ==
    {Arr(items) : items \in UNION {[1..k -> ProbeDays] : k \in 0..MaxProbeLen}}
    \cup {DayWith(1, 20), Null}

Probe(candidate, expectedDays) ==
    [t |-> "probe", candidate |-> candidate, expectedDays |-> expectedDays,
     done |-> FALSE, result |-> None]

\* the longest text cleanOpenAIResponse is applied to, in pieces
MaxCleanLen == 4

\* the pieces of these texts: the fence markers, the brackets, a word, a blank
CleanPieces == {"~~~json", "~~~", "[", "]", "x", " "}

\* a text cleanOpenAIResponse is to be applied to
CleanProbe(text) == [t |-> "clean", text |-> text, done |-> FALSE, result |-> <<>>]

\* an attempt number calculateDelay is to be applied to
DelayProbe(attempt) == [t |-> "delay", attempt |-> attempt, done |-> FALSE, result |-> 0]

InitValidate ==
    /\ world = World({}, {}, {}, {}, {}, {}, {}, FALSE)
    /\ env = [firebase |-> "valid", openai |-> "set"]
    /\ store = <<>>
    /\ owner = <<>>
    /\ post = [r \in Reqs |-> PostIdle]
    /\ bg = [r \in Reqs |-> BgNone]
    /\ get = GetIdle
    /\ gets = 0
    /\ probe \in {Probe(c, n) : c \in Candidates, n \in 1..MaxExpectedDays}
                \cup {DelayProbe(k) : k \in 1..MaxProbeAttempt}
                \cup {CleanProbe(text) :
                         text \in UNION {[1..k -> CleanPieces] : k \in 0..MaxCleanLen}}
    /\ last = None

\* the validation block of generateItinerary runs on the candidate
Validate ==
    /\ probe.t = "probe"
    /\ ~probe.done
    /\ probe' = [probe EXCEPT !.done = TRUE,
                              !.result = ValidateItinerary(probe.candidate,
                                                           probe.expectedDays)]
    /\ UNCHANGED <<world, env, store, owner, post, bg, get, gets, last>>

\* calculateDelay runs on the attempt number
Delay ==
    /\ probe.t = "delay"
    /\ ~probe.done
    /\ probe' = [probe EXCEPT !.done = TRUE, !.result = calculateDelay(probe.attempt)]
    /\ UNCHANGED <<world, env, store, owner, post, bg, get, gets, last>>

\* cleanOpenAIResponse runs on the text
Clean ==
    /\ probe.t = "clean"
    /\ ~probe.done
    /\ probe' = [probe EXCEPT !.done = TRUE, !.result = cleanOpenAIResponse(probe.text)]
    /\ UNCHANGED <<world, env, store, owner, post, bg, get, gets, last>>

NextValidate == Validate \/ Delay \/ Clean

SpecValidate == InitValidate /\ [][NextValidate]_vars

\* the candidates C10 calls valid for n days
ClaimedValidActivity(a) ==
    /\ a.t = "object"
    /\ IsString(a.time) /\ Len(a.time.s) >= 1
    /\ IsString(a.location) /\ Len(a.location.s) >= 1
    /\ IsString(a.description) /\ Len(a.description.s) >= 20

ClaimedValidDay(d, i) ==
    /\ d.t = "object"
    /\ d.day = Num(i, 0)
    /\ IsString(d.theme) /\ Len(d.theme.s) >= 1
    /\ d.activities.t = "array"
    /\ Len(d.activities.items) >= 1
    /\ \A k \in 1..Len(d.activities.items) : ClaimedValidActivity(d.activities.items[k])

ClaimedValid(candidate, n) ==
    /\ candidate.t = "array"
    /\ Len(candidate.items) = n
    /\ \A i \in 1..Len(candidate.items) : ClaimedValidDay(candidate.items[i], i)

\* C10 (as claimed): validation of a candidate against n succeeds if and
\* only if the candidate is an array of n days, the i-th numbered i, each
\* with a non-empty theme and at least one activity, every activity with
\* non-empty time and location and a description of at least 20 characters.
C10_ValidationIffClaimedValid ==
    (probe.t = "probe" /\ probe.done)
        => (probe.result.ok <=> ClaimedValid(probe.candidate, probe.expectedDays))

\* the structural rules of C11, with the lower of the two floors for the
\* description (10), so that every candidate either floor lets pass is covered
StructuredActivity(a) ==
    /\ a.t = "object"
    /\ IsString(a.time) /\ Len(a.time.s) >= 1
    /\ IsString(a.location) /\ Len(a.location.s) >= 1
    /\ IsString(a.description) /\ Len(a.description.s) >= 10

StructuredDay(d) ==
    /\ d.t = "object"
    /\ d.day.t = "number" /\ d.day.frac = 0 /\ d.day.int >= 1
    /\ IsString(d.theme) /\ Len(d.theme.s) >= 1
    /\ d.activities.t = "array"
    /\ Len(d.activities.items) >= 1
    /\ \A k \in 1..Len(d.activities.items) : StructuredActivity(d.activities.items[k])

Structured(candidate) ==
    /\ candidate.t = "array"
    /\ Len(candidate.items) >= 1
    /\ \A i \in 1..Len(candidate.items) : StructuredDay(candidate.items[i])

\* C11: for a candidate that passes the structural rules and has as many
\* days as expected, validation fails if and only if some day's number
\* differs from its position, and the error then cites the day sequence.
C11_DaySequenceErrorIffOutOfSequence ==
    ( /\ probe.t = "probe"
      /\ probe.done
      /\ Structured(probe.candidate)
      /\ Len(probe.candidate.items) = probe.expectedDays )
        => LET items == probe.candidate.items
               outOfSequence == \E i \in 1..Len(items) : items[i].day # Num(i, 0)
           IN  /\ probe.result.ok <=> ~outOfSequence
               /\ ~probe.result.ok
                     => /\ Includes(probe.result.message, "sequence")
                        /\ Includes(probe.result.message, "error:")

\* C11 witness: days [1,3] for two expected days have been rejected with the
\* day-sequence error.
C11_Witness ==
    /\ probe.t = "probe"
    /\ probe.done
    /\ probe.expectedDays = 2
    /\ probe.candidate = Arr(<<DayWith(1, 20), DayWith(3, 20)>>)
    /\ ~probe.result.ok
    /\ Includes(probe.result.message, "sequence")

(***************************************************************************)
(* Properties of one background run and of the attempts of its calls.      *)
(***************************************************************************)
\* the job document of run r as a status check would decode it
DecodedJob(r) == convertFromFirestoreFormat(store[bg[r].jobId])

\* the run has seen nothing but the one reply e of the model: every token
\* and store call succeeded
SawOnlyReply(r, e) == bg[r].seen = {e} /\ e.event = "reply"

\* C12: a run that has ended after every token and store call succeeded and
\* the model returned a well-formed array of n days numbered 1..n, n the
\* durationDays of the job, has left the job 'completed' with that array as
\* its itinerary, completedAt set and error null.
C12_CleanRunCompletes ==
    \A r \in Reqs :
        bg[r].pc = "done" =>
            \A e \in bg[r].seen :
                ( /\ SawOnlyReply(r, e)
                  /\ ClaimedValid(e.reply.json, DecodedJob(r).durationDays.int) )
                    => /\ DecodedJob(r).status = Str(<<"completed">>)
                       /\ DecodedJob(r).itinerary = e.reply.json
                       /\ Len(DecodedJob(r).itinerary.items)
                             = DecodedJob(r).durationDays.int
                       /\ DecodedJob(r).completedAt = Str(toISOString(completedNow))
                       /\ DecodedJob(r).error = Null

\* C12 witness: a run asked for two days has ended having seen only a
\* well-formed two-day reply.
C12_Witness ==
    \E r \in Reqs :
        /\ bg[r].pc = "done"
        /\ \E e \in bg[r].seen :
              /\ SawOnlyReply(r, e)
              /\ ClaimedValid(e.reply.json, 2)
              /\ DecodedJob(r).durationDays = Num(2, 0)

\* every event the run has seen is a reply of the model that the try block
\* of generateItinerary rejected (unparseable, or failing validation)
SawOnlyContentErrors(r) ==
    /\ bg[r].seen # {}
    /\ \A e \in bg[r].seen : e.event = "reply" /\ ~e.accepted

\* C13: a run that has ended after every token and store call succeeded and
\* every reply of the model was a content error has left the job 'failed'
\* with a null itinerary and a non-empty error string.
C13_ContentErrorsEndFailed ==
    \A r \in Reqs :
        (bg[r].pc = "done" /\ SawOnlyContentErrors(r))
            => /\ DecodedJob(r).status = Str(<<"failed">>)
               /\ DecodedJob(r).itinerary = Null
               /\ DecodedJob(r).error.t = "string"
               /\ Len(DecodedJob(r).error.s) > 0

\* C13 witness: a run has ended having seen two different content errors
\* (the first was retried) and nothing else.
C13_Witness ==
    \E r \in Reqs :
        /\ bg[r].pc = "done"
        /\ SawOnlyContentErrors(r)
        /\ Cardinality(bg[r].seen) = 2

\* the attempt a succeeded: the fetch was answered ok and, for the model,
\* the reply is a well-formed array of n days
AttemptSucceeded(a, n) ==
    /\ a.outcome.kind = "ok"
    /\ a.call = "generateItinerary" => ClaimedValid(a.outcome.payload.json, n)

\* the attempt a failed: the fetch was rejected or answered not ok or, for
\* the model, the reply could not be parsed or failed validation
AttemptFailed(a, n) ==
    \/ a.outcome.kind # "ok"
    \/ /\ a.call = "generateItinerary"
       /\ ~GenerateAttempt(a.outcome, n).ok

\* the call process p (a handler or a run) is in, or "" when it is in none
InCall(p) == IF p.pc \in {"idle", "received", "none", "done"} THEN "" ELSE p.pc

\* what C14 says of one step of process p (before) to q (after), a being the
\* attempt recorded last after the step
AttemptsInOrder(p, q, a) ==
    /\ InCall(q) # "" => q.attempt \in 1..4
    /\ (InCall(q) # "" /\ InCall(q) # InCall(p)) => q.attempt = 1
    /\ (InCall(q) # "" /\ InCall(q) = InCall(p) /\ q.attempt # p.attempt)
          => /\ q.attempt = p.attempt + 1
             /\ a.attempt = p.attempt
             /\ a.result = "retry"
             /\ AttemptFailed(a, p.durationDays)

\* C14: every invocation of a retried call numbers its attempts 1, 2, ...
\* up to at most 4; attempt k + 1 is made only after attempt k failed, and
\* an attempt that succeeded makes the call return.
C14_AtMostFourAttempts ==
    [][\A r \in Reqs :
          /\ AttemptsInOrder(post[r], post'[r], last')
          /\ AttemptsInOrder(bg[r], bg'[r], last')
          /\ (last' # last /\ last'.who = r)
                => /\ last'.attempt \in 1..4
                   /\ last'.result = "retry" => last'.attempt <= 3
                   /\ AttemptSucceeded(last', bg[r].durationDays)
                         => last'.result = "return"
                   /\ last'.result = "return"
                         => /\ InCall(post'[r]) # InCall(post[r])
                               \/ InCall(bg'[r]) # InCall(bg[r])
                            /\ ~AttemptFailed(last', bg[r].durationDays)]_vars

\* C14 witness: the fourth attempt of generateItinerary failed with a
\* retried failure and the call threw.
C14_Witness ==
    /\ last # None
    /\ last.call = "generateItinerary"
    /\ last.attempt = 4
    /\ last.result = "throw"
    /\ isRetryableError(last.message)

\* the delay C15 gives for the retry after failed attempt k
ClaimedDelay(k) ==
    IF 1000 * 2^(k - 1) < 30000 THEN 1000 * 2^(k - 1) ELSE 30000

\* C15: the delay computed for the retry after failed attempt k is
\* min(1000 * 2^(k-1), 30000): 1000, 2000, 4000 for k = 1, 2, 3; it is not
\* below the delay of any earlier attempt and never above 30000.
C15_DelayIsCappedExponential ==
    (probe.t = "delay" /\ probe.done)
        => /\ probe.result = ClaimedDelay(probe.attempt)
           /\ probe.attempt = 1 => probe.result = 1000
           /\ probe.attempt = 2 => probe.result = 2000
           /\ probe.attempt = 3 => probe.result = 4000
           /\ probe.result <= 30000
           /\ \A j \in 1..probe.attempt : ClaimedDelay(j) <= probe.result

\* C15 witness: the delay of an attempt whose exponential exceeds the cap
\* has been computed as the cap.
C15_Witness ==
    /\ probe.t = "delay"
    /\ probe.done
    /\ probe.attempt = 6
    /\ probe.result = 30000

\* C16: a retried call whose third attempt succeeded (the first two having
\* failed with a failure the call retries) returns the result of that
\* attempt to its caller, after exactly three attempts and a suspension of
\* 1000 + 2000 = 3000 ms in all.
C16_ThirdAttemptSucceeds ==
    (last # None /\ last.attempt = 3 /\ AttemptSucceeded(last, bg[last.who].durationDays))
        => /\ last.result = "return"
           /\ last.slept = 3000
           /\ (last.call = "getAccessToken" /\ bg[last.who].pc = "generate")
                 => bg[last.who].accessToken = last.outcome.payload
           /\ (last.call = "getAccessToken" /\ post[last.who].pc = "create")
                 => post[last.who].accessToken = last.outcome.payload
           /\ last.call = "generateItinerary"
                 => /\ bg[last.who].pc = "update"
                    /\ bg[last.who].itinerary = last.outcome.payload.json
           /\ last.call = "createFirestoreDocument"
                 => /\ post[last.who].response.code = 202
                    /\ post[last.who].response.jobId \in DOMAIN store

\* C16 witness: the third attempt of generateItinerary returned a
\* well-formed reply after two retried failures.
C16_Witness ==
    /\ last # None
    /\ last.call = "generateItinerary"
    /\ last.attempt = 3
    /\ last.result = "return"
    /\ last.slept = 3000

\* the failures C17 calls retryable and C18 calls not retryable
ClaimedTransient(outcome) ==
    \/ outcome.kind = "http" /\ (outcome.status >= 500 \/ outcome.status = 429)
    \/ outcome.kind = "rejected" /\ Includes(outcome.message, "timeout")

ClaimedPermanent(outcome) ==
    \/ /\ outcome.kind = "http"
       /\ outcome.status >= 400 /\ outcome.status < 500 /\ outcome.status # 429
    \/ outcome.kind = "rejected" /\ ~Includes(outcome.message, "timeout")

\* C17 (as claimed): an attempt of a retried call that failed with HTTP 5xx,
\* HTTP 429 or a timeout, and was not the fourth, is followed by a retry.
C17_TransientFailureIsRetried ==
    (last # None /\ ClaimedTransient(last.outcome) /\ last.attempt < 4)
        => last.result = "retry"

\* C18 (as claimed): an attempt of a retried call that failed with a 4xx
\* other than 429 or with a malformed-input error is the only attempt of
\* its invocation: the call throws.
C18_PermanentFailureIsNotRetried ==
    (last # None /\ ClaimedPermanent(last.outcome))
        => last.attempt = 1 /\ last.result = "throw"

(***************************************************************************)
(* The data objects the writes are given, as JavaScript values.            *)
(***************************************************************************)
\* a Date: the instant it holds
Date(time) == [t |-> "date", time |-> time]

\* the data object of the create
CreateDocument(data) ==
    [t |-> "object", status |-> Str(data.status), destination |-> Str(data.destination),
     durationDays |-> Num(data.durationDays, 0), createdAt |-> Date(data.createdAt),
     completedAt |-> Null, itinerary |-> Null, error |-> Null]

\* the data object of an update (to 'completed' or to 'failed')
UpdateDocument(data) ==
    [t |-> "object", status |-> Str(data.status), itinerary |-> data.itinerary,
     completedAt |-> Date(data.completedAt), error |-> data.error]

\* C19 (as claimed): the data object of every write, converted to the
\* store's typed values as the write converts it and back with
\* convertFromFirestoreFormat, is the data object again, each value of its
\* own type.
C19_ConversionRoundTrips ==
    \A r \in Reqs :
        /\ post[r].pc = "create"
              => convertFromFirestoreFormat(CreateFields(PostCreateData(post[r])))
                    = CreateDocument(PostCreateData(post[r]))
        /\ bg[r].pc = "update"
              => convertFromFirestoreFormat(UpdateFields(CompletedData(bg[r])))
                    = UpdateDocument(CompletedData(bg[r]))
        /\ bg[r].pc = "fail_update"
              => convertFromFirestoreFormat(UpdateFields(FailedData(bg[r])))
                    = UpdateDocument(FailedData(bg[r]))

(***************************************************************************)
(* Properties of the status check.                                         *)
(***************************************************************************)
\* C20: a status check is answered 400 exactly when it names no job; once it
\* reads the store it is answered 404 only if the document is absent, 200
\* only if it is present and then with the decoded document, and 500
\* otherwise; a failed token acquisition is answered 500; and no step of a
\* status check changes the store.
C20_StatusCheckAnswersAndWritesNothing ==
    [][get' # get
          => /\ store' = store
             /\ owner' = owner
             /\ gets' # gets
                   => (get'.response.code = 400 <=> get'.jobId = "")
             /\ (get.pc = "token" /\ get'.pc = "done")
                   => get'.response.code = 500
             /\ (get.pc = "fetch" /\ get'.pc = "done")
                   => /\ get'.response.code \in {200, 404, 500}
                      /\ get'.response.code = 404 => get.jobId \notin DOMAIN store
                      /\ get'.response.code = 200
                            => /\ get.jobId \in DOMAIN store
                               /\ get'.response.data
                                     = convertFromFirestoreFormat(store[get.jobId])
                      /\ get'.response.code = 500
                            => Includes(get'.response.details, "Firestore")]_vars

\* C20 witness: a status check has returned the decoded document of a
\* 'completed' job.
C20_Witness ==
    /\ get.pc = "done"
    /\ get.response.code = 200
    /\ get.response.data.status = Str(<<"completed">>)
    /\ get.response.data.itinerary.t = "array"

(***************************************************************************)
(* Properties of concurrent jobs.                                          *)
(***************************************************************************)
\* the step changes no process but those of request r
OnlyStepOf(r) == \A q \in Reqs \ {r} : post'[q] = post[q] /\ bg'[q] = bg[q]

\* C21: a step that creates or changes the document id is a step of the
\* request that owns id alone, it leaves every other document as it was,
\* and the document it leaves is computed from the owner's own state: the
\* create's data, or the document merged with the owner's terminal update;
\* and a run in progress belongs to the document of its own jobId, which
\* holds the run's own destination and durationDays.
C21_JobsAreIndependent ==
    [][/\ \A id \in DOMAIN store' :
             (id \notin DOMAIN store \/ store'[id] # store[id])
                => /\ OnlyStepOf(owner'[id])
                   /\ \A x \in DOMAIN store' \ {id} :
                         x \in DOMAIN store /\ store'[x] = store[x]
                   /\ \/ /\ id \notin DOMAIN store
                         /\ post[owner'[id]].pc = "create"
                         /\ post[owner'[id]].jobId = id
                         /\ store'[id] = CreateFields(PostCreateData(post[owner'[id]]))
                      \/ /\ id \in DOMAIN store
                         /\ bg[owner'[id]].pc = "update"
                         /\ bg[owner'[id]].jobId = id
                         /\ store'[id] = Merge(store[id],
                                UpdateFields(CompletedData(bg[owner'[id]])))
                      \/ /\ id \in DOMAIN store
                         /\ bg[owner'[id]].pc = "fail_update"
                         /\ bg[owner'[id]].jobId = id
                         /\ store'[id] = Merge(store[id],
                                UpdateFields(FailedData(bg[owner'[id]])))
       /\ \A r \in Reqs :
             bg'[r].pc \notin {"none", "done"}
                => /\ bg'[r].jobId \in DOMAIN store'
                   /\ owner'[bg'[r].jobId] = r
                   /\ store'[bg'[r].jobId].destination = stringValue(bg'[r].destination)
                   /\ store'[bg'[r].jobId].durationDays
                         = integerValue(<<ToString(bg'[r].durationDays)>>)]_vars

\* C21 witness: two jobs submitted concurrently with different inputs have
\* both reached a terminal status, one of them 'completed' with two days.
C21_Witness ==
    \E id \in DOMAIN store, other \in DOMAIN store :
        /\ id # other
        /\ Terminal(StatusOf(id))
        /\ StatusOf(other) = <<"completed">>
        /\ store[id].destination # store[other].destination
        /\ Len(store[other].itinerary.arrayValue.values) = 2

\* C22: an attempt of the create for an id that already has a document
\* changes no document, schedules no run, and ends the submission, if it
\* ends it, with an error response; the id never gets a 202 from it.
C22_CreateNeverOverwrites ==
    [][\A r \in Reqs :
          ( /\ post[r].pc = "create"
            /\ post[r].jobId \in DOMAIN store
            /\ post'[r] # post[r] )
              => /\ store' = store
                 /\ owner' = owner
                 /\ bg[r].pc = "none"
                 /\ bg'[r].pc = "none"
                 /\ post'[r].pc = "done" => post'[r].response.code = 500
                 /\ post'[r].response.code # 202]_vars

\* C22 witness: a submission that drew the id of a document still in
\* 'processing' has been refused with the store's conflict and has no run.
C22_Witness ==
    \E r \in Reqs, id \in DOMAIN store :
        /\ owner[id] # r
        /\ StatusOf(id) = <<"processing">>
        /\ post[r].response.code = 500
        /\ Includes(post[r].response.details, "409")
        /\ bg[r].pc = "none"

\* the attempt a of generateItinerary got a reply that failed JSON.parse or
\* the validation, for a job of n days
ContentError(a, n) ==
    /\ a.call = "generateItinerary"
    /\ a.outcome.kind = "ok"
    /\ ~GenerateAttempt(a.outcome, n).ok

\* C23 (as claimed): an attempt of generateItinerary whose reply failed
\* parsing or validation, and was not the fourth, is followed by another
\* attempt.
C23_ContentErrorIsRetried ==
    (last # None /\ ContentError(last, bg[last.who].durationDays) /\ last.attempt < 4)
        => last.result = "retry"

\* the fields of the update the run r is about to attempt in its catch block
FailureWrite(r) == UpdateFields(FailedData(bg'[r]))

\* C24: when getAccessToken or generateItinerary throws in the try block
\* of a run, the run goes on to the update with status 'failed': through a
\* token acquisition if it holds no token, at once and with the token it
\* holds otherwise; the update it attempts carries status 'failed',
\* completedAt, a non-empty error and a null itinerary, and is authorised
\* with the token held or just acquired.
C24_FailureLeadsToFailedWrite ==
    [][\A r \in Reqs :
          /\ ( /\ bg[r].pc \in {"token", "generate"}
               /\ last' # last
               /\ last'.who = r
               /\ last'.result = "throw" )
                 => /\ bg'[r].error = last'.message
                    /\ Len(bg'[r].error) > 0
                    /\ bg[r].accessToken = None
                          => bg'[r].pc = "fail_token" /\ bg'[r].attempt = 1
                    /\ bg[r].accessToken # None
                          => /\ bg'[r].pc = "fail_update"
                             /\ bg'[r].attempt = 1
                             /\ bg'[r].accessToken = bg[r].accessToken
          /\ (bg[r].pc = "fail_token" /\ bg'[r].pc = "fail_update")
                 => bg'[r].accessToken = last'.outcome.payload
          /\ (bg[r].pc = "fail_update" /\ bg'[r].pc = "fail_update")
                 => bg'[r].accessToken = bg[r].accessToken
          /\ bg'[r].pc = "fail_update"
                 => /\ bg'[r].accessToken # None
                    /\ FailureWrite(r).status = stringValue(<<"failed">>)
                    /\ "timestampValue" \in DOMAIN FailureWrite(r).completedAt
                    /\ "stringValue" \in DOMAIN FailureWrite(r).error
                    /\ Len(FailureWrite(r).error.stringValue) > 0
                    /\ FailureWrite(r).itinerary = nullValue]_vars

\* C24 witness: a job has been written 'failed' by a run whose token
\* acquisition had failed in the try block and succeeded in the catch block.
C24_Witness ==
    \E id \in DOMAIN store :
        /\ StatusOf(id) = <<"failed">>
        /\ Includes(store[id].error.stringValue, "access")
        /\ Includes(store[id].error.stringValue, "token")

\* the document id is still 'processing' although the run of its job has ended
Stuck(id) == bg[owner[id]].pc = "done" /\ StatusOf(id) = <<"processing">>

\* C25: when getAccessToken or the update with status 'failed' throws in
\* the catch block, the run ends and the store is left as it was; a document
\* that is 'processing' once its run has ended has completedAt, itinerary and
\* error null, and no later step changes it or starts its run again.
C25_FailedFailureWriteLeavesProcessing ==
    [][/\ \A r \in Reqs :
             ( /\ bg[r].pc \in {"fail_token", "fail_update"}
               /\ bg'[r] # bg[r]
               /\ last'.who = r
               /\ last'.result = "throw" )
                 => /\ bg'[r].pc = "done"
                    /\ store' = store
                    /\ StatusOf(bg[r].jobId) = <<"processing">>
       /\ \A id \in DOMAIN store :
             Stuck(id)
                 => /\ store[id].completedAt = nullValue
                    /\ store[id].itinerary = nullValue
                    /\ store[id].error = nullValue
                    /\ store'[id] = store[id]
                    /\ bg'[owner[id]].pc = "done"]_vars

\* C25 witness: the update with status 'failed' has thrown, the run has
\* ended and its document is still 'processing'.
C25_Witness ==
    /\ last # None
    /\ last.call = "updateFirestoreDocument"
    /\ last.result = "throw"
    /\ bg[last.who].pc = "done"
    /\ "fault" \in {e.event : e \in bg[last.who].seen}
    /\ \E id \in DOMAIN store : owner[id] = last.who /\ Stuck(id)

\* the run r has thrown at the step just taken
Threw(r) == bg'[r] # bg[r] /\ last'.who = r /\ last'.result = "throw"

\* C26: every throw inside a run is caught: one in the try block takes the
\* run into the catch block, one in the catch block ends the run; the run
\* is never left rejected, it ends with its document 'completed' or 'failed'
\* or, after a throw in the catch block, with nothing but the log; no step
\* of the run touches the response of the submission, which stays the 202.
C26_RunSwallowsEveryError ==
    [][\A r \in Reqs :
          (bg[r].pc # "none" /\ bg'[r] # bg[r])
             => /\ post'[r] = post[r]
                /\ post[r].response = Accepted(bg[r].jobId)
                /\ bg'[r].pc \in {"token", "generate", "update",
                                  "fail_token", "fail_update", "done"}
                /\ (Threw(r) /\ bg[r].pc \in {"token", "generate", "update"})
                      => bg'[r].pc \in {"fail_token", "fail_update"}
                /\ (Threw(r) /\ bg[r].pc \in {"fail_token", "fail_update"})
                      => bg'[r].pc = "done" /\ store' = store
                /\ (bg'[r].pc = "done" /\ ~Threw(r))
                      => Terminal(store'[bg[r].jobId].status.stringValue)]_vars

\* C26 witness: a run whose generation failed has ended with its document
\* 'failed', and the submission still shows the 202 it answered.
C26_Witness ==
    \E r \in Reqs :
        /\ bg[r].pc = "done"
        /\ post[r].response = Accepted(bg[r].jobId)
        /\ bg[r].jobId \in DOMAIN store
        /\ StatusOf(bg[r].jobId) = <<"failed">>
        /\ \E e \in bg[r].seen : e.event = "fault" /\ e.call = "generateItinerary"

\* the fields of the document id that createFirestoreDocument alone sets
CreationFields(doc) ==
    [createdAt |-> doc.createdAt, destination |-> doc.destination,
     durationDays |-> doc.durationDays]

Updated(r) ==
    /\ bg'[r] # bg[r]
    /\ last'.who = r
    /\ last'.call = "updateFirestoreDocument"
    /\ last'.result = "return"

\* C28: the stored completedAt is null exactly when the stored status is
\* 'processing'; every update that returns finds completedAt null and
\* status 'processing' and leaves completedAt set and the status terminal,
\* so completedAt is written once at most; no other step changes it.
C28_CompletedAtSetOnceWithTerminalStatus ==
    [][/\ \A id \in DOMAIN store :
             /\ (store[id].completedAt = nullValue) <=> (StatusOf(id) = <<"processing">>)
             /\ (store'[id].completedAt = nullValue)
                    <=> (store'[id].status.stringValue = <<"processing">>)
             /\ store'[id].completedAt # store[id].completedAt
                    => /\ store[id].completedAt = nullValue
                       /\ Terminal(store'[id].status.stringValue)
                       /\ Updated(owner[id])
       /\ \A r \in Reqs :
             Updated(r)
                => /\ store[bg[r].jobId].completedAt = nullValue
                   /\ StatusOf(bg[r].jobId) = <<"processing">>
                   /\ store'[bg[r].jobId].completedAt
                         = timestampValue(toISOString(completedNow))
                   /\ Terminal(store'[bg[r].jobId].status.stringValue)]_vars

\* C28 witness: the update with status 'failed' has just returned and the
\* document carries completedAt.
C28_Witness ==
    /\ last # None
    /\ last.call = "updateFirestoreDocument"
    /\ last.result = "return"
    /\ \E id \in DOMAIN store :
          /\ owner[id] = last.who
          /\ StatusOf(id) = <<"failed">>
          /\ store[id].completedAt = timestampValue(toISOString(completedNow))

\* the tokens the run of request r can acquire: in its try block and in its
\* catch block
RunTokens(r) == {Token(r, "run"), Token(r, "rerun")}

\* C29: a run starts without a token although the submission holds one;
\* the token a run holds is the one its own getAccessToken returned, in
\* its try block or in its catch block; at each update, and whenever an
\* update returns, the run holds such a token, never the submission's.
C29_RunUsesItsOwnToken ==
    [][\A r \in Reqs :
          /\ (bg[r].pc = "none" /\ bg'[r].pc # "none")
                => /\ post[r].accessToken = Token(r, "submit")
                   /\ bg'[r].accessToken = None
                   /\ bg'[r].pc = "token"
          /\ bg'[r].accessToken # Token(r, "submit")
          /\ (bg'[r].accessToken # bg[r].accessToken /\ bg'[r].accessToken # None)
                => /\ bg[r].pc \in {"token", "fail_token"}
                   /\ last'.who = r
                   /\ last'.call = "getAccessToken"
                   /\ last'.outcome = HttpOk(bg'[r].accessToken)
                   /\ bg'[r].accessToken \in RunTokens(r)
          /\ bg'[r].pc \in {"update", "fail_update"}
                => bg'[r].accessToken \in RunTokens(r)
          /\ Updated(r) => bg[r].accessToken \in RunTokens(r)]_vars

\* C29 witness: the update with status 'completed' has returned for a run
\* that held the token of its try block.
C29_Witness ==
    /\ last # None
    /\ last.call = "updateFirestoreDocument"
    /\ last.result = "return"
    /\ bg[last.who].pc = "done"
    /\ \E id \in DOMAIN store : owner[id] = last.who /\ StatusOf(id) = <<"completed">>

\* the run of request r starts at the step taken
Starts(r) == bg[r].pc = "none" /\ bg'[r].pc # "none"

\* C30: a submission answers 202 with a jobId in the step that starts the
\* run of that jobId, and in no other; the run starts at its beginning with
\* the destination and durationDays the 'processing' document of the jobId
\* stores; a run once started is never started again, and no two runs have
\* the same jobId.
C30_AcceptedMeansOneRunScheduled ==
    [][/\ \A r \in Reqs :
             /\ (post'[r].response.code = 202 /\ post[r].response.code # 202)
                    <=> Starts(r)
             /\ post'[r].response.code = 202
                    => post'[r].response = Accepted(bg'[r].jobId)
             /\ Starts(r)
                    => /\ bg'[r] = processItineraryGeneration(bg'[r].jobId,
                                        bg'[r].destination, bg'[r].durationDays)
                       /\ bg'[r].jobId \in DOMAIN store'
                       /\ bg'[r].jobId \notin DOMAIN store
                       /\ owner'[bg'[r].jobId] = r
                       /\ store'[bg'[r].jobId].status = stringValue(<<"processing">>)
                       /\ store'[bg'[r].jobId].destination
                             = stringValue(bg'[r].destination)
                       /\ store'[bg'[r].jobId].durationDays
                             = integerValue(<<ToString(bg'[r].durationDays)>>)
                       /\ bg'[r].destination = Trim(post[r].destination)
             /\ bg[r].pc # "none"
                    => bg'[r].pc # "none" /\ bg'[r].jobId = bg[r].jobId
       /\ \A r1, r2 \in Reqs :
             (r1 # r2 /\ bg'[r1].pc # "none" /\ bg'[r2].pc # "none")
                => bg'[r1].jobId # bg'[r2].jobId]_vars

\* C30 witness: two submissions drew the same identifier; one was answered
\* 202 and its run is under way, the other was answered with an error and
\* has no run.
C30_Witness ==
    \E r1, r2 \in Reqs :
        /\ post[r1].response.code = 202
        /\ bg[r1].pc \in {"token", "generate", "update"}
        /\ post[r2].pc = "done"
        /\ post[r2].response.code = 500
        /\ bg[r2].pc = "none"
        /\ Includes(post[r2].response.details, "409")

\* the message says "after n attempts:"
StatesAttempts(message, n) ==
    \E i \in 1..(Len(message) - 2) :
        /\ message[i] = "after"
        /\ message[i + 1] = ToString(n)
        /\ message[i + 2] = "attempts:"

\* C31: the error a retried call throws when it gives up (getAccessToken,
\* createFirestoreDocument, updateFirestoreDocument, generateItinerary) is
\* a wrapped error whose message states the number of attempts made.
C31_FinalErrorStatesAttempts ==
    (last # None /\ last.result = "throw")
        => StatesAttempts(last.message, last.attempt)

\* the rule a validation error reports: the schema ("Validation failed:"),
\* the length ("Expected n days, got m days") or the day sequence
ReportedRule(message) ==
    IF Len(message) >= 2 /\ message[1] = "Validation" /\ message[2] = "failed:"
    THEN "structure"
    ELSE IF Len(message) = 6 /\ message[1] = "Expected" /\ message[3] = "days,"
    THEN "length"
    ELSE IF Len(message) = 9 /\ message[1] = "Day" /\ message[2] = "sequence"
    THEN "sequence"
    ELSE "other"

\* the first rule the candidate violates, in the order structure, length,
\* day sequence
FirstViolatedRule(candidate, n) ==
    IF ~Structured(candidate) THEN "structure"
    ELSE IF Len(candidate.items) # n THEN "length"
    ELSE IF \E i \in 1..Len(candidate.items) : candidate.items[i].day # Num(i, 0)
    THEN "sequence"
    ELSE "none"

\* C32: validation checks the structure, then the length against the
\* expected days, then the day sequence, and its error reports the first of
\* the three the candidate violates and nothing of the later ones; a
\* candidate of the wrong length with days out of sequence gets the length
\* error.
C32_FirstViolatedRuleIsReported ==
    (probe.t = "probe" /\ probe.done)
        => /\ probe.result.ok
                <=> FirstViolatedRule(probe.candidate, probe.expectedDays) = "none"
           /\ ~probe.result.ok
                => ReportedRule(probe.result.message)
                      = FirstViolatedRule(probe.candidate, probe.expectedDays)

\* C32 witness: days [2,1] for one expected day have been rejected with the
\* length error.
C32_Witness ==
    /\ probe.t = "probe"
    /\ probe.done
    /\ probe.expectedDays = 1
    /\ probe.candidate = Arr(<<DayWith(2, 20), DayWith(1, 20)>>)
    /\ probe.result = Err(<<"Expected", "1", "days,", "got", "2", "days">>)

(***************************************************************************)
(* One submission whose run counts its calls.                              *)
(***************************************************************************)
NoCalls == [t |-> "calls", token |-> 0, model |-> 0, update |-> 0]

InitCalls ==
    /\ world = World({"r1"}, Bodies, {"id1"}, TokenFaults, StoreFaults, ModelFaults,
                     Replies, FALSE)
    /\ env \in Envs
    /\ store = <<>>
    /\ owner = <<>>
    /\ post = [r \in Reqs |-> PostIdle]
    /\ bg = [r \in Reqs |-> BgNone]
    /\ get = GetIdle
    /\ gets = 0
    /\ probe = NoCalls
    /\ last = None

SpecCalls == InitCalls /\ [][NextConcurrent]_vars

\* the calls a run can still make at most: four attempts for each call it
\* has not reached, and the attempts left of the call it is at
CallsLeft(run) ==
    IF run.pc \in {"none", "done"} THEN 0
    ELSE (maxRetries + 1) * (CASE run.pc = "token" -> 4
                               [] run.pc = "generate" -> 3
                               [] run.pc = "update" -> 2
                               [] run.pc = "fail_token" -> 1
                               [] run.pc = "fail_update" -> 0)
         + (maxRetries + 2 - run.attempt)

\* C33: every call of a run that returns leaves the run with fewer calls
\* to make, so a run whose calls all return ends; it makes at most
\* maxRetries + 1 = 4 model calls, at most 8 token requests and at most 8
\* document updates, and none once it has ended.
C33_RunEndsWithinBoundedCalls ==
    [][/\ probe'.model <= maxRetries + 1
       /\ probe'.token <= 2 * (maxRetries + 1)
       /\ probe'.update <= 2 * (maxRetries + 1)
       /\ probe' # probe
             => /\ probe'.token + probe'.model + probe'.update
                     = probe.token + probe.model + probe.update + 1
                /\ \E r \in Reqs : bg'[r] # bg[r]
       /\ \A r \in Reqs :
             /\ bg[r].pc \notin {"none", "done"} => bg[r].attempt \in 1..(maxRetries + 1)
             /\ (bg[r].pc # "none" /\ bg'[r] # bg[r])
                   => /\ CallsLeft(bg'[r]) < CallsLeft(bg[r])
                      /\ probe' # probe
             /\ bg[r].pc = "done" => bg'[r] = bg[r]]_vars

\* C33 witness: a run has ended after eight document updates, four with
\* status 'completed' and four with status 'failed'.
C33_Witness ==
    /\ probe.t = "calls"
    /\ probe.update = 2 * (maxRetries + 1)
    /\ probe.model >= 1
    /\ bg["r1"].pc = "done"

\* C34: a rejected attempt of the update with status 'failed' is followed
\* by a second attempt when it was the first, and by the end of the run
\* when it was the second; there is no third attempt.
C34_FailureWriteRetriedOnce ==
    [][\A r \in Reqs :
          ( /\ bg[r].pc = "fail_update"
            /\ bg'[r] # bg[r]
            /\ last'.who = r
            /\ last'.outcome.kind # "ok" )
              => /\ bg[r].attempt <= 2
                 /\ bg[r].attempt = 1
                       => bg'[r].pc = "fail_update" /\ bg'[r].attempt = 2
                 /\ bg[r].attempt = 2 => bg'[r].pc = "done"]_vars

\* C35: when the update with status 'completed' throws, the run goes
\* straight to the update with status 'failed', whose error is that of the
\* update, with the token of its try block and no getAccessToken between;
\* the token stays the same over the attempts of that update.
C35_FailedCompletionLeadsToFailedWrite ==
    [][\A r \in Reqs :
          /\ (bg[r].pc = "update" /\ Threw(r))
                => /\ bg[r].itinerary # Null
                   /\ store' = store
                   /\ bg'[r].pc = "fail_update"
                   /\ bg'[r].attempt = 1
                   /\ bg[r].accessToken = Token(r, "run")
                   /\ bg'[r].accessToken = bg[r].accessToken
                   /\ FailureWrite(r).status = stringValue(<<"failed">>)
                   /\ FailureWrite(r).itinerary = nullValue
                   /\ FailureWrite(r).error
                         = stringValue(<<"Generation", "failed:">> \o last'.message)
          /\ (bg[r].pc \in {"update", "fail_update"} /\ bg'[r].pc = "fail_update")
                => /\ bg'[r].accessToken = bg[r].accessToken
                   /\ last'.call = "updateFirestoreDocument"]_vars

\* C35 witness: a job whose itinerary was generated and accepted has been
\* written 'failed' with the error of the update.
C35_Witness ==
    \E id \in DOMAIN store :
        /\ StatusOf(id) = <<"failed">>
        /\ Includes(store[id].error.stringValue, "Firestore")
        /\ Includes(store[id].error.stringValue, "update")
        /\ \E e \in bg[owner[id]].seen : e.event = "reply" /\ e.accepted

\* two failed attempts of one call fail in the same way: the same HTTP
\* status, a rejected fetch both, or a reply that is a content error both
SameFailure(o1, o2, n) ==
    IF o1.kind = "http" THEN o2.kind = "http" /\ o2.status = o1.status
    ELSE IF o1.kind = "rejected" THEN o2.kind = "rejected"
    ELSE /\ o2.kind = "ok"
         /\ ~GenerateAttempt(o1, n).ok
         /\ ~GenerateAttempt(o2, n).ok

\* what the attempt of the call comes to on the outcome
AttemptOn(call, attempt, outcome, n) ==
    IF call = "createFirestoreDocument" THEN createFirestoreDocument(attempt, outcome)
    ELSE IF call = "updateFirestoreDocument"
    THEN updateFirestoreDocument(attempt, outcome)
    ELSE generateItinerary(attempt, outcome, n)

\* the outcomes the environment could have given the attempt instead
OutcomesOn(call) ==
    IF call = "generateItinerary" THEN ModelOutcomes ELSE world.storeFaults

\* C36: whether a failed attempt of a create, an update or a generation is
\* retried depends on the way it failed and on the attempt number only: had
\* the attempt failed in the same way with another response body or reply
\* text, it would have been retried or thrown alike.
C36_RetryDecisionIgnoresText ==
    ( /\ last # None
      /\ last.call \in {"createFirestoreDocument", "updateFirestoreDocument",
                        "generateItinerary"}
      /\ last.result # "return" )
        => \A o \in OutcomesOn(last.call) :
              SameFailure(last.outcome, o, bg[last.who].durationDays)
                 => AttemptOn(last.call, last.attempt, o,
                              bg[last.who].durationDays).kind = last.result

\* the text without the fence markers at its start (one with the word json,
\* one without, or the first followed by the second) and without the fence
\* marker at its end, the blanks around them dropped too
OpeningFence(text) ==
    IF Len(text) = 0 THEN 0
    ELSE IF Head(text) = "~~~" THEN 1
    ELSE IF Head(text) \notin {"~~~json", "~~~JSON"} THEN 0
    ELSE IF Len(TrimStart(Tail(text))) > 0 /\ Head(TrimStart(Tail(text))) = "~~~"
    THEN Len(text) - Len(TrimStart(Tail(text))) + 1
    ELSE 1

WithoutOpeningFence(text) ==
    TrimStart(SubSeq(text, OpeningFence(text) + 1, Len(text)))

WithoutClosingFence(text) ==
    IF Len(text) > 0 /\ text[Len(text)] = "~~~"
    THEN TrimEnd(SubSeq(text, 1, Len(text) - 1)) ELSE text

FenceStripped(text) == WithoutClosingFence(WithoutOpeningFence(Trim(text)))

\* the positions of the piece c in the text
Positions(text, c) == {i \in 1..Len(text) : text[i] = c}

\* the span from the first "[" to the last "]" of the text when there is a
\* "[" before the last "]", the text otherwise
ClaimedSpan(text) ==
    IF \E i \in Positions(text, "[") : \E j \in Positions(text, "]") : i < j
    THEN SubSeq(text,
                CHOOSE i \in Positions(text, "[") :
                    \A k \in Positions(text, "[") : i <= k,
                CHOOSE j \in Positions(text, "]") :
                    \A k \in Positions(text, "]") : k <= j)
    ELSE text

\* C37: cleanOpenAIResponse gives the text without its opening and closing
\* fence markers, cut to the span from its first "[" to its last "]" when
\* a "[" comes before the last "]", and as it is otherwise.
C37_CleaningKeepsBracketSpan ==
    (probe.t = "clean" /\ probe.done)
        => probe.result = ClaimedSpan(FenceStripped(probe.text))

\* C37 witness: a fenced text with a word before the array has been cut to
\* the array.
C37_Witness ==
    /\ probe.t = "clean"
    /\ probe.done
    /\ probe.text = <<"~~~json", "x", "[", "]">>
    /\ probe.result = <<"[", "]">>

====
